---- MODULE Spec2Model ----
(***************************************************************************)
(* unified-auth-server: the refresh-token rotation endpoint with its       *)
(* used-token store and retention sweep, the login and callback handlers   *)
(* with the browser session, role resolution and token delivery, the       *)
(* policy validators, the HMAC request signer, the project configuration   *)
(* manager and its cache, the Workspace group expansion and the JWT        *)
(* handler with its signing key, as state machines translated from the     *)
(* Python source.                                                          *)
(***************************************************************************)
EXTENDS Integers, Sequences, FiniteSets, TLC

VARIABLES
    \* ---- refresh endpoint and TokenStore ----
    used_tokens,    \* TokenStore._used_tokens: jti -> record
    req,            \* one entry per in-flight /api/refresh request
    issued,         \* refresh tokens the issuer has signed so far
    now,            \* wall clock, in days
    config_store,   \* the configuration source: project id -> configuration
    config_cache,   \* ProjectConfigManager._config_cache: project id -> configuration
    store_lock,     \* TokenStore._lock: "free", or held by the sweep
    sweep,          \* the running cleanup_expired call: its cutoff
    \* ---- one call of a validator ----
    vin,            \* the call: function name and arguments
    vout,           \* its result, once it has returned
    \* ---- one /callback login attempt ----
    cb,             \* the attempt: its inputs, locals and position in the handler
    audit,          \* audit events recorded so far (event types)
    ws_initialized, \* WorkspaceAdminClient._initialized
    session,        \* request.session of the browser: what /login stored for /callback
    \* ---- ProjectConfigManager ----
    use_local_config,   \* ProjectConfigManager.use_local_config
    config_op,          \* the manager's last call and its result
    stored_last,        \* history: per project, what the last create/update/delete left
    \* ---- WorkspaceAdminClient.get_user_groups ----
    directory,      \* the Workspace directory the call reads
    expansion,      \* the call's locals and its position
    \* ---- JWTHandler and its signing key ----
    secret_key_cache,   \* JWTHandler._secret_key_cache ("" is None)
    key_env,            \* settings and the secret store, as the key is read from them
    key_log,            \* history: the first key loaded, how often the sources were read
    held,               \* the token the client holds
    jwt_op,             \* the last JWTHandler operation and its result
    clock               \* wall clock of the handler, in ticks

sweepVars == <<store_lock, sweep>>
refreshVars == <<used_tokens, req, issued, now, config_store, config_cache, store_lock, sweep>>
validatorVars == <<vin, vout>>
loginVars == <<cb, audit, ws_initialized, session>>
managerVars == <<use_local_config, config_op, stored_last>>
directoryVars == <<directory, expansion>>
jwtVars == <<secret_key_cache, key_env, key_log, held, jwt_op, clock>>

vars == <<used_tokens, req, issued, now, config_store, config_cache, store_lock, sweep,
          vin, vout,
          cb, audit, ws_initialized, session,
          use_local_config, config_op, stored_last,
          directory, expansion,
          secret_key_cache, key_env, key_log, held, jwt_op, clock>>

-----------------------------------------------------------------------------
(* Bounds of the model *)

NumRequests == 2        \* concurrent /api/refresh requests
MaxTime == 2            \* the clock runs 0..MaxTime
RefreshTtl == 2         \* lifetime of a refresh token, in clock days
MaxClock == 6           \* the handler's clock runs 0..MaxClock ticks
TicksPerDay == 2        \* clock ticks in one day
JwtExpiryDays == 1      \* settings.jwt_expiry_days of the modelled deployment
MaxLogins == 2          \* /login requests in one browser session

Requests == 1..NumRequests
Projects == {"p1", "p2"}
NoToken == [jti |-> 0, email |-> "", project_id |-> "", exp |-> 0, sig |-> "none"]
NoAccess == [email |-> "", name |-> "", project_id |-> "", role |-> ""]
NoPair == [access |-> NoAccess, refresh |-> NoToken]

-----------------------------------------------------------------------------
(* Python strings and lists *)

Char(s, i) == SubSeq(s, i, i)

UpperChars == "ABCDEFGHIJKLMNOPQRSTUVWXYZ"
LowerChars == "abcdefghijklmnopqrstuvwxyz"
DigitChars == "0123456789"

InChars(c, chars) == \E i \in 1..Len(chars) : Char(chars, i) = c

IsLetter(c) == InChars(c, UpperChars) \/ InChars(c, LowerChars)
IsDigit(c) == InChars(c, DigitChars)

LowerChar(c) ==
    IF InChars(c, UpperChars)
      THEN Char(LowerChars, CHOOSE i \in 1..Len(UpperChars) : Char(UpperChars, i) = c)
      ELSE c

\* str.lower()
RECURSIVE ToLower(_)
ToLower(s) == IF Len(s) = 0 THEN "" ELSE LowerChar(Char(s, 1)) \o ToLower(SubSeq(s, 2, Len(s)))

\* [f(x) for x in xs] with f = str.lower
LowerAll(xs) == [i \in 1..Len(xs) |-> ToLower(xs[i])]

\* x in xs
InList(x, xs) == \E i \in 1..Len(xs) : xs[i] = x

\* sep.join(xs)
RECURSIVE Join(_, _)
Join(xs, sep) ==
    IF Len(xs) = 0 THEN ""
    ELSE IF Len(xs) = 1 THEN xs[1]
    ELSE xs[1] \o sep \o Join(Tail(xs), sep)

\* sub in s
Contains(s, sub) ==
    \E i \in 1..(Len(s) - Len(sub) + 1) : SubSeq(s, i, i + Len(sub) - 1) = sub

\* s.startswith(prefix)
StartsWith(s, prefix) == Len(prefix) <= Len(s) /\ SubSeq(s, 1, Len(prefix)) = prefix

\* s.rstrip(c)
RECURSIVE RStrip(_, _)
RStrip(s, c) ==
    IF Len(s) > 0 /\ Char(s, Len(s)) = c THEN RStrip(SubSeq(s, 1, Len(s) - 1), c) ELSE s

\* s.split(sep): the pieces between the occurrences of the one-character sep
RECURSIVE Split(_, _)
Split(s, sep) ==
    IF ~Contains(s, sep) THEN <<s>>
    ELSE LET p == CHOOSE i \in 1..Len(s) :
                    Char(s, i) = sep /\ \A j \in 1..(i - 1) : Char(s, j) # sep
         IN <<SubSeq(s, 1, p - 1)>> \o Split(SubSeq(s, p + 1, Len(s)), sep)

\* [x for x in xs if keep(x)] for keep = "x not in ys"
RECURSIVE NotIn(_, _)
NotIn(xs, ys) ==
    IF Len(xs) = 0 THEN << >>
    ELSE (IF InList(xs[1], ys) THEN << >> ELSE <<xs[1]>>) \o NotIn(Tail(xs), ys)

-----------------------------------------------------------------------------
(* app/core/hmac_signer.py *)

UpperChar(c) ==
    IF InChars(c, LowerChars)
      THEN Char(UpperChars, CHOOSE i \in 1..Len(LowerChars) : Char(LowerChars, i) = c)
      ELSE c

\* str.upper()
RECURSIVE ToUpper(_)
ToUpper(s) == IF Len(s) = 0 THEN "" ELSE UpperChar(Char(s, 1)) \o ToUpper(SubSeq(s, 2, Len(s)))

\* the characters of the inputs in code-point order, the order Python compares str by
CodePoints == "-/" \o DigitChars \o UpperChars \o "_" \o LowerChars

Ord(c) == CHOOSE i \in 1..Len(CodePoints) : Char(CodePoints, i) = c

\* a < b for str
RECURSIVE StrLess(_, _)
StrLess(a, b) ==
    IF Len(b) = 0 THEN FALSE
    ELSE IF Len(a) = 0 THEN TRUE
    ELSE IF Char(a, 1) = Char(b, 1) THEN StrLess(SubSeq(a, 2, Len(a)), SubSeq(b, 2, Len(b)))
    ELSE Ord(Char(a, 1)) < Ord(Char(b, 1))

\* str(n) for n >= 0
RECURSIVE IntStr(_)
IntStr(n) ==
    IF n < 10 THEN Char(DigitChars, n + 1)
    ELSE IntStr(n \div 10) \o Char(DigitChars, (n % 10) + 1)

\* JSON values of a request body: a dict is the sequence of its items in insertion order
JStr(s) == [t |-> "str", s |-> s, n |-> 0, items |-> << >>]
JInt(n) == [t |-> "int", s |-> "", n |-> n, items |-> << >>]
JDict(items) == [t |-> "dict", s |-> "", n |-> 0, items |-> items]
Item(k, v) == [k |-> k, v |-> v]

RECURSIVE InsertByKey(_, _)
InsertByKey(item, sorted) ==
    IF Len(sorted) = 0 THEN <<item>>
    ELSE IF StrLess(item.k, Head(sorted).k) THEN <<item>> \o sorted
    ELSE <<Head(sorted)>> \o InsertByKey(item, Tail(sorted))

\* sorted(dct.items()) of json.dumps(..., sort_keys=True)
RECURSIVE SortByKey(_)
SortByKey(items) ==
    IF Len(items) = 0 THEN << >>
    ELSE InsertByKey(items[Len(items)], SortByKey(SubSeq(items, 1, Len(items) - 1)))

\* json.dumps(value, sort_keys=True, separators=(',', ':'))
RECURSIVE json_dumps(_)
json_dumps(value) ==
    CASE value.t = "str" -> "\"" \o value.s \o "\""
      [] value.t = "int" -> IntStr(value.n)
      [] value.t = "dict" ->
           LET sorted == SortByKey(value.items)
               parts == [i \in 1..Len(sorted) |->
                            "\"" \o sorted[i].k \o "\":" \o json_dumps(sorted[i].v)]
           IN  "{" \o Join(parts, ",") \o "}"

\* hashlib.sha256(data).hexdigest(): the digest of data, distinct data giving distinct digests
sha256_hexdigest(data) == "sha256<" \o data \o ">"

\* hmac.new(key, msg, hashlib.sha256).hexdigest(): the keyed digest of msg
hmac_sha256_hexdigest(key, msg) == [alg |-> "HMAC-SHA256", key |-> key, msg |-> msg]

generate_signature_method_as_given(client_secret, timestamp, method, path, body) ==
    hmac_sha256_hexdigest(client_secret,
        timestamp \o "\n" \o method \o "\n" \o path \o "\n"
        \o sha256_hexdigest(json_dumps(JDict(body))))

generate_signature(client_secret, timestamp, method, path, body) ==
    LET body_json == json_dumps(JDict(body))
        body_hash == sha256_hexdigest(body_json)
        signature_string ==
            timestamp \o "\n" \o ToUpper(method) \o "\n" \o path \o "\n" \o body_hash
    IN  hmac_sha256_hexdigest(client_secret, signature_string)

-----------------------------------------------------------------------------
(* app/core/validators.py *)

LocalSpecials == "._%+-"
DomainSpecials == ".-"

IsLocalChar(c) == IsLetter(c) \/ IsDigit(c) \/ InChars(c, LocalSpecials)
IsDomainChar(c) == IsLetter(c) \/ IsDigit(c) \/ InChars(c, DomainSpecials)

\* EMAIL_REGEX.match: ^[a-zA-Z0-9._%+-]+@[a-zA-Z0-9.-]+\.[a-zA-Z]{2,}$
\* ($ also matches just before a final line feed.)
EmailRegexMatch(e) ==
    \E last \in {Len(e)} \cup (IF Len(e) > 0 /\ Char(e, Len(e)) = "\n" THEN {Len(e) - 1} ELSE {}) :
      \E at \in 2..last :
        /\ Char(e, at) = "@"
        /\ \A i \in 1..(at - 1) : IsLocalChar(Char(e, i))
        /\ \E dot \in (at + 2)..(last - 2) :
              /\ Char(e, dot) = "."
              /\ \A i \in (dot + 1)..last : IsLetter(Char(e, i))
              /\ \A i \in (at + 1)..(dot - 1) : IsDomainChar(Char(e, i))

is_valid_email(email) == Len(email) > 0 /\ EmailRegexMatch(email)

extract_domain(email) ==
    IF ~is_valid_email(email) THEN "" ELSE ToLower(Split(email, "@")[2])

\* re.match(r'^\d{7}$', local_part)
SevenDigits(s) ==
    /\ Len(s) = 7 \/ (Len(s) = 8 /\ Char(s, 8) = "\n")
    /\ \A i \in 1..7 : IsDigit(Char(s, i))

SixOrMoreDigits(s) == Len(s) >= 6 /\ \A i \in 1..Len(s) : IsDigit(Char(s, i))

StudentPattern(s) == SevenDigits(s)

is_student_email(email) ==
    IF ~is_valid_email(email) THEN FALSE ELSE StudentPattern(Split(email, "@")[1])

validate_domain_subdomains(email, allowed_domains) ==
    LET domain == extract_domain(email)
        lowered == LowerAll(allowed_domains)
    IN  /\ domain # ""
        /\ \E i \in 1..Len(lowered) :
              \/ domain = lowered[i]
              \/ (Len(domain) > Len(lowered[i]) + 1 /\
                  SubSeq(domain, Len(domain) - Len(lowered[i]), Len(domain)) = "." \o lowered[i])

validate_domain(email, allowed_domains) ==
    LET domain == extract_domain(email) IN
    IF domain = "" THEN FALSE
    ELSE InList(domain, LowerAll(allowed_domains))

validate_student_access(email, student_allowed) ==
    IF ~student_allowed /\ is_student_email(email) THEN FALSE ELSE TRUE

validate_admin_access_exact(email, admin_emails) ==
    IF Len(admin_emails) = 0 THEN TRUE ELSE InList(email, LowerAll(admin_emails))

validate_admin_access(email, admin_emails) ==
    IF Len(admin_emails) = 0 THEN TRUE
    ELSE InList(ToLower(email), LowerAll(admin_emails))

Pass == [ok |-> TRUE, msg |-> ""]
Fail(msg) == [ok |-> FALSE, msg |-> msg]

\* the required check answers alone: the allowed check is skipped
validate_group_membership_required_only(user_groups, required_groups, allowed_groups) ==
    LET user_groups_lower == LowerAll(user_groups)
        missing_groups == NotIn(LowerAll(required_groups), user_groups_lower)
    IN  IF Len(required_groups) > 0
          THEN (IF Len(missing_groups) > 0
                  THEN Fail("User is not a member of required groups: " \o Join(missing_groups, ", "))
                  ELSE Pass)
        ELSE IF Len(allowed_groups) > 0
                /\ ~\E i \in 1..Len(user_groups_lower) :
                        InList(user_groups_lower[i], LowerAll(allowed_groups))
          THEN Fail("User is not a member of any allowed groups: " \o Join(allowed_groups, ", "))
        ELSE Pass

validate_group_membership(user_groups, required_groups, allowed_groups) ==
    LET user_groups_lower == LowerAll(user_groups)
        missing_groups == NotIn(LowerAll(required_groups), user_groups_lower)
    IN  IF Len(required_groups) > 0 /\ Len(missing_groups) > 0
          THEN Fail("User is not a member of required groups: " \o Join(missing_groups, ", "))
        ELSE IF Len(allowed_groups) > 0
                /\ ~\E i \in 1..Len(user_groups_lower) :
                        InList(user_groups_lower[i], LowerAll(allowed_groups))
          THEN Fail("User is not a member of any allowed groups: " \o Join(allowed_groups, ", "))
        ELSE Pass

\* WorkspaceAdminClient.check_org_unit_hierarchy
check_org_unit_hierarchy_prefix(user_org_unit, allowed_org_unit) ==
    LET user_path == RStrip(user_org_unit, "/")
        allowed_path == RStrip(allowed_org_unit, "/")
    IN  user_path = allowed_path \/ StartsWith(user_path, allowed_path)

check_org_unit_hierarchy(user_org_unit, allowed_org_unit) ==
    LET user_path == RStrip(user_org_unit, "/")
        allowed_path == RStrip(allowed_org_unit, "/")
    IN  user_path = allowed_path \/ StartsWith(user_path, allowed_path \o "/")

\* Optional[...] values
NoGroups == [some |-> FALSE, val |-> << >>]
NoOrgUnit == [some |-> FALSE, val |-> ""]
Some(v) == [some |-> TRUE, val |-> v]

RECURSIVE NotUnder(_, _)
NotUnder(ous, user_ou) ==
    IF Len(ous) = 0 THEN << >>
    ELSE (IF check_org_unit_hierarchy(user_ou, ous[1]) THEN << >> ELSE <<ous[1]>>)
         \o NotUnder(Tail(ous), user_ou)

validate_org_unit_membership(user_org_unit, required_org_units, allowed_org_units) ==
    IF ~user_org_unit.some
      THEN (IF Len(required_org_units) > 0 \/ Len(allowed_org_units) > 0
              THEN Fail("Unable to retrieve user's organizational unit")
              ELSE Pass)
    ELSE
      LET normalized == RStrip(user_org_unit.val, "/")
          missing == NotUnder(required_org_units, normalized)
      IN  IF Len(required_org_units) > 0 /\ Len(missing) > 0
            THEN Fail("User is not a member of required organizational units: "
                      \o Join(missing, ", "))
          ELSE IF Len(allowed_org_units) > 0
                  /\ ~\E i \in 1..Len(allowed_org_units) :
                          check_org_unit_hierarchy(normalized, allowed_org_units[i])
            THEN Fail("User is not a member of any allowed organizational units: "
                      \o Join(allowed_org_units, ", "))
          ELSE Pass

\* One check of validate_user_access: "" when it passes, else the failure kind.
\* The group and org-unit failure kinds are chosen by the text of the message.
StageCheck(stage, email, cfg, user_groups, user_org_unit) ==
    CASE stage = "domain" ->
           IF validate_domain(email, cfg.allowed_domains) THEN "" ELSE "InvalidDomain"
      [] stage = "student" ->
           IF validate_student_access(email, cfg.student_allowed) THEN "" ELSE "StudentNotAllowed"
      [] stage = "admin" ->
           IF validate_admin_access(email, cfg.admin_emails) THEN "" ELSE "AdminOnly"
      [] stage = "group" ->
           LET r == validate_group_membership(user_groups.val, cfg.required_groups,
                                              cfg.allowed_groups)
           IN  IF r.ok THEN ""
               ELSE IF Contains(r.msg, "required") THEN "GroupMembershipRequired"
               ELSE "NoMatchingGroup"
      [] stage = "org_unit" ->
           LET r == validate_org_unit_membership(user_org_unit, cfg.required_org_units,
                                                 cfg.allowed_org_units)
           IN  IF r.ok THEN ""
               ELSE IF Contains(r.msg, "required") THEN "OrgUnitRequired"
               ELSE "NoMatchingOrgUnit"

\* "if user_groups is not None", "if user_org_unit is not None"
StageRuns(stage, user_groups, user_org_unit) ==
    CASE stage = "group" -> user_groups.some
      [] stage = "org_unit" -> user_org_unit.some
      [] OTHER -> TRUE

\* The checks in the given order; the first failure is raised.
RECURSIVE RunStages(_, _, _, _, _, _)
RunStages(stages, email, cfg, user_groups, user_org_unit, evaluated) ==
    IF Len(stages) = 0 THEN [kind |-> "ok", evaluated |-> evaluated]
    ELSE IF ~StageRuns(Head(stages), user_groups, user_org_unit)
      THEN RunStages(Tail(stages), email, cfg, user_groups, user_org_unit, evaluated)
    ELSE LET k == StageCheck(Head(stages), email, cfg, user_groups, user_org_unit) IN
         IF k # "" THEN [kind |-> k, evaluated |-> Append(evaluated, Head(stages))]
         ELSE RunStages(Tail(stages), email, cfg, user_groups, user_org_unit,
                        Append(evaluated, Head(stages)))

StageOrder == <<"domain", "student", "admin", "group", "org_unit">>

validate_user_access_admin_first(email, cfg, user_groups, user_org_unit) ==
    RunStages(<<"admin", "domain", "student", "group", "org_unit">>,
              email, cfg, user_groups, user_org_unit, << >>)

validate_user_access(email, cfg, user_groups, user_org_unit) ==
    RunStages(StageOrder, email, cfg, user_groups, user_org_unit, << >>)

-----------------------------------------------------------------------------
(* Token issuer: the rotating pair (JWTHandler.create_refresh_token,       *)
(* create_access_token, verify_refresh_token).                             *)

\* A fresh jti: one no signed token carries yet.
NewJti(tokens) == 1 + Cardinality(tokens)

create_refresh_token(email, project_id, expiry_days, tokens, t) ==
    [jti |-> NewJti(tokens), email |-> email, project_id |-> project_id,
     exp |-> t + expiry_days, sig |-> "good"]

create_access_token(email, name, project_id, role) ==
    [email |-> email, name |-> name, project_id |-> project_id, role |-> role]

\* "ok", or the failure kind.
verify_refresh_token_accept_all(tok, t) == "ok"

verify_refresh_token(tok, t) ==
    IF tok.sig # "good" THEN "InvalidToken"
    ELSE IF t >= tok.exp THEN "TokenExpired"
    ELSE "ok"

-----------------------------------------------------------------------------
(* TokenStore *)

is_token_used_never(store, jti) == FALSE

is_token_used(store, jti) == jti \in DOMAIN store

UsedTokenRecord(email, project_id, t, ip) ==
    [email |-> email, project_id |-> project_id, used_at |-> t, ip_address |-> ip]

mark_token_as_used(store, jti, email, project_id, t, ip) ==
    [j \in (DOMAIN store) \cup {jti} |->
        IF j = jti THEN UsedTokenRecord(email, project_id, t, ip) ELSE store[j]]

\* The same with every record dropped.
cleanup_expired_all(store, cutoff) == << >>

\* TokenStore.cleanup_expired: the records used after the cutoff stay
cleanup_expired(store, cutoff) ==
    [j \in {i \in DOMAIN store : store[i].used_at > cutoff} |-> store[j]]

NoSweep == [cutoff |-> 0]
SweepIdle == store_lock = "free" /\ sweep = NoSweep

-----------------------------------------------------------------------------
(* ProjectConfigManager.get_project_config: cache first, then the source.  *)

ConfigFound(p) == p \in DOMAIN config_cache \/ p \in DOMAIN config_store

-----------------------------------------------------------------------------
(* JWTHandler: the signing key, create_token, verify_token, refresh_token.  *)
(* A token is its payload (a dict), the key it was signed with and whether  *)
(* it parses as a JWT.  Times are clock ticks.                              *)

EmptyDict == [k \in {} |-> ""]

\* d.update(u)
Update(d, u) == [k \in DOMAIN d \cup DOMAIN u |-> IF k \in DOMAIN u THEN u[k] ELSE d[k]]

\* {k: v for k, v in d.items() if k not in ks}
Without(d, ks) == [k \in DOMAIN d \ ks |-> d[k]]

\* {key: value}
Entry(key, value) == [k \in {key} |-> value]

-----------------------------------------------------------------------------
(* app/core/project_config.py: ProjectConfigManager.  The source is        *)
(* LOCAL_PROJECT_CONFIGS when use_local_config is set and the Firestore    *)
(* collection otherwise; no project of the model is held by Secret Manager *)
(* or by the built-in fallback.                                            *)

Raised(err, cache, store) ==
    [err |-> err, config |-> EmptyDict, returned |-> FALSE, cache |-> cache, store |-> store]

Answer(config, returned, cache, store) ==
    [err |-> "", config |-> config, returned |-> returned, cache |-> cache, store |-> store]

\* the cache first, then the source; what the source yields is cached
get_project_config(cache, store, project_id) ==
    IF project_id \in DOMAIN cache THEN Answer(cache[project_id], FALSE, cache, store)
    ELSE IF project_id \in DOMAIN store
      THEN Answer(store[project_id], FALSE,
                     Update(cache, Entry(project_id, store[project_id])), store)
    ELSE Raised("ProjectNotFoundError", cache, store)

\* the source takes the configuration; the cache is not touched
create_project(cache, store, project_id, config) ==
    Answer(config, FALSE, cache, Update(store, Entry(project_id, config)))

\* config.update(updates) changes the dict get_project_config returned, which
\* is the cached one; the local source takes that dict, Firestore merges the
\* updates into its document and refuses when there is none
update_project(local, cache, store, project_id, updates) ==
    LET g == get_project_config(cache, store, project_id)
        config == Update(g.config, updates)
        cached == Update(g.cache, Entry(project_id, config))
    IN  IF g.err # "" THEN g
        ELSE IF local THEN Answer(config, FALSE, cached,
                                     Update(store, Entry(project_id, config)))
        ELSE IF project_id \notin DOMAIN store THEN Raised("NotFound", cached, store)
        ELSE Answer(config, FALSE, cached,
                       Update(store, Entry(project_id, Update(store[project_id], updates))))

\* the source loses the project; the cache is not touched
delete_project(local, cache, store, project_id) ==
    IF local /\ project_id \notin DOMAIN store THEN Answer(EmptyDict, FALSE, cache, store)
    ELSE Answer(EmptyDict, TRUE, cache, Without(store, {project_id}))

Issuer == "unified-auth-server"
StandardClaims == {"email", "name", "project_id", "iat", "exp", "iss", "sub"}

NoJwt == [shape |-> "none", key |-> "", payload |-> EmptyDict]

\* SecretManagerClient.get_jwt_secret_key: the stored secret, else the
\* environment's key, else RuntimeError
get_jwt_secret_key(env) ==
    IF ~env.secret_manager_enabled
      THEN (IF env.jwt_secret_key = "" THEN [err |-> "RuntimeError", key |-> ""]
            ELSE [err |-> "", key |-> env.jwt_secret_key])
    ELSE IF env.stored = ""
      THEN (IF env.jwt_secret_key # "" THEN [err |-> "", key |-> env.jwt_secret_key]
            ELSE [err |-> "RuntimeError", key |-> ""])
    ELSE [err |-> "", key |-> env.stored]

KeyResult(err, key, cache, consulted) ==
    [err |-> err, key |-> key, cache |-> cache, consulted |-> consulted]

\* The same without the cache: every call reads the sources again.
get_secret_key_uncached(cache, env) ==
    IF ~env.secret_manager_enabled
      THEN (IF env.jwt_secret_key = "" THEN KeyResult("ValueError", "", cache, TRUE)
            ELSE KeyResult("", env.jwt_secret_key, env.jwt_secret_key, TRUE))
    ELSE LET r == get_jwt_secret_key(env)
         IN  IF r.err # "" THEN KeyResult(r.err, "", cache, TRUE)
             ELSE KeyResult("", r.key, r.key, TRUE)

\* JWTHandler._get_secret_key
get_secret_key(cache, env) ==
    IF cache # "" THEN KeyResult("", cache, cache, FALSE)
    ELSE IF ~env.secret_manager_enabled
      THEN (IF env.jwt_secret_key = "" THEN KeyResult("ValueError", "", cache, TRUE)
            ELSE KeyResult("", env.jwt_secret_key, env.jwt_secret_key, TRUE))
    ELSE LET r == get_jwt_secret_key(env)
         IN  IF r.err # "" THEN KeyResult(r.err, "", cache, TRUE)
             ELSE IF r.key = "" THEN KeyResult("ValueError", "", cache, TRUE)
             ELSE KeyResult("", r.key, r.key, TRUE)

\* jwt.encode
jwt_encode(payload, key) == [shape |-> "jwt", key |-> key, payload |-> payload]

\* jwt.decode: structure and signature first, then exp, then the issuer.
\* The error is "" when the payload is returned.
jwt_decode(token, key, verify_exp, issuer, t) ==
    IF token.shape # "jwt" THEN "DecodeError"
    ELSE IF token.key # key THEN "InvalidSignatureError"
    ELSE IF verify_exp /\ "exp" \in DOMAIN token.payload /\ token.payload["exp"] <= t
      THEN "ExpiredSignatureError"
    ELSE IF issuer # "" /\ "iss" \notin DOMAIN token.payload THEN "MissingRequiredClaimError"
    ELSE IF issuer # "" /\ token.payload["iss"] # issuer THEN "InvalidIssuerError"
    ELSE ""

\* The failure kind an exception surfaces as.
KindOf(err) ==
    CASE err = "" -> "ok"
      [] err \in {"ValueError", "RuntimeError"} -> "SigningKeyUnavailable"
      [] err = "ExpiredSignatureError" -> "TokenExpired"
      [] err \in {"DecodeError", "InvalidSignatureError", "MissingRequiredClaimError",
                  "InvalidIssuerError"} -> "InvalidToken"
      [] err = "TypeError" -> "TypeError"

OpResult(kind, out, k) ==
    [kind |-> kind, out |-> out, cache |-> k.cache, consulted |-> k.consulted]

\* The same without payload.update(additional_claims).
create_token_standard_only(email, name, project_id, expiry_days, additional_claims, cache, env, t) ==
    LET days == IF expiry_days = 0 THEN JwtExpiryDays ELSE expiry_days
        payload == [email |-> email, name |-> name, project_id |-> project_id, iat |-> t,
                    exp |-> t + days * TicksPerDay, iss |-> Issuer, sub |-> email]
        k == get_secret_key(cache, env)
    IN  IF k.err # "" THEN OpResult(KindOf(k.err), NoJwt, k)
        ELSE OpResult("ok", jwt_encode(payload, k.key), k)

\* JWTHandler.create_token; expiry_days 0 stands for None
create_token(email, name, project_id, expiry_days, additional_claims, cache, env, t) ==
    LET days == IF expiry_days = 0 THEN JwtExpiryDays ELSE expiry_days
        payload == Update([email |-> email, name |-> name, project_id |-> project_id,
                           iat |-> t, exp |-> t + days * TicksPerDay, iss |-> Issuer,
                           sub |-> email],
                          additional_claims)
        k == get_secret_key(cache, env)
    IN  IF k.err # "" THEN OpResult(KindOf(k.err), NoJwt, k)
        ELSE OpResult("ok", jwt_encode(payload, k.key), k)

\* The same without the issuer argument of jwt.decode.
verify_token_any_issuer(token, cache, env, t) ==
    LET k == get_secret_key(cache, env)
    IN  IF k.err # "" THEN OpResult(KindOf(k.err), NoJwt, k)
        ELSE LET err == jwt_decode(token, k.key, TRUE, "", t)
             IN  OpResult(KindOf(err), IF err = "" THEN token ELSE NoJwt, k)

\* JWTHandler.verify_token; the result's out carries the payload returned
verify_token(token, cache, env, t) ==
    LET k == get_secret_key(cache, env)
    IN  IF k.err # "" THEN OpResult(KindOf(k.err), NoJwt, k)
        ELSE LET err == jwt_decode(token, k.key, TRUE, Issuer, t)
             IN  OpResult(KindOf(err), IF err = "" THEN token ELSE NoJwt, k)

\* (now - exp_datetime).days: whole days, rounded down
DaysSince(exp, t) == (t - exp) \div TicksPerDay

\* JWTHandler.refresh_token.  TokenExpiredError takes no argument, so raising
\* it with the message ends in TypeError.
refresh_token(token, expiry_days, max_refresh_days, cache, env, t) ==
    LET k == get_secret_key(cache, env)
    IN  IF k.err # "" THEN OpResult(KindOf(k.err), NoJwt, k)
        ELSE LET err == jwt_decode(token, k.key, FALSE, "", t)
                 p == token.payload
             IN  IF err # "" THEN OpResult(KindOf(err), NoJwt, k)
                 ELSE IF /\ "exp" \in DOMAIN p /\ p["exp"] # 0
                         /\ DaysSince(p["exp"], t) > max_refresh_days
                   THEN OpResult(KindOf("TypeError"), NoJwt, k)
                 ELSE create_token(p["email"], p["name"], p["project_id"], expiry_days,
                                   Without(p, StandardClaims), k.cache, env, t)

\* Does the static configuration or the secret store hold a key?
SourcesYield(env) ==
    env.jwt_secret_key # "" \/ (env.secret_manager_enabled /\ env.stored # "")

NoKeySources == [secret_manager_enabled |-> FALSE, jwt_secret_key |-> "", stored |-> ""]

NoOp == [op |-> "none", token |-> NoJwt, at |-> 0, cache_before |-> "",
         yields |-> FALSE, max_refresh_days |-> 0,
         result |-> [kind |-> "none", out |-> NoJwt, cache |-> "", consulted |-> FALSE]]

NoKeyLog == [first |-> "", loads |-> 0]

JwtIdle ==
    /\ secret_key_cache = ""
    /\ key_env = NoKeySources
    /\ key_log = NoKeyLog
    /\ held = NoJwt
    /\ jwt_op = NoOp
    /\ clock = 0

\* What an operation leaves behind: the cache, the history and the record.
Finish(op, token, max_refresh_days, r) ==
    /\ secret_key_cache' = r.cache
    /\ key_log' = [first |-> IF key_log.first = "" THEN r.cache ELSE key_log.first,
                   loads |-> IF r.consulted /\ r.cache # "" /\ key_log.loads < 2
                               THEN key_log.loads + 1 ELSE key_log.loads]
    /\ jwt_op' = [op |-> op, token |-> token, at |-> clock, cache_before |-> secret_key_cache,
                  yields |-> SourcesYield(key_env),
                  max_refresh_days |-> max_refresh_days, result |-> r]

ExtraClaims == {EmptyDict, [role |-> "teacher", jti |-> "j1"]}

JwtCreate ==
    /\ \E expiry_days \in {0}, extra \in ExtraClaims :
          LET r == create_token("yamada@i-seifu.jp", "Yamada", "p1", expiry_days, extra,
                                secret_key_cache, key_env, clock)
          IN  /\ Finish("create", NoJwt, 0, r)
              /\ held' = IF r.kind = "ok" THEN r.out ELSE held
    /\ UNCHANGED <<key_env, clock, refreshVars, validatorVars, managerVars, directoryVars, loginVars>>

JwtVerify ==
    /\ held # NoJwt
    /\ Finish("verify", held, 0, verify_token(held, secret_key_cache, key_env, clock))
    /\ UNCHANGED <<held, key_env, clock, refreshVars, validatorVars, managerVars, directoryVars, loginVars>>

JwtRefresh ==
    /\ held # NoJwt
    /\ \E max_refresh_days \in {0, 1} :
          LET r == refresh_token(held, 0, max_refresh_days, secret_key_cache, key_env, clock)
          IN  /\ Finish("refresh", held, max_refresh_days, r)
              /\ held' = IF r.kind = "ok" THEN r.out ELSE held
    /\ UNCHANGED <<key_env, clock, refreshVars, validatorVars, managerVars, directoryVars, loginVars>>

\* The client alters the token it holds, or presents one signed elsewhere.
Tampered(token) ==
    {[token EXCEPT !.key = "forged"], [token EXCEPT !.shape = "garbage"],
     [token EXCEPT !.payload = Update(token.payload, [iss |-> "other-issuer"])],
     [token EXCEPT !.payload = Without(token.payload, {"iss"})]}

JwtTamper ==
    /\ held.shape = "jwt" /\ held.key # "forged"
    /\ "iss" \in DOMAIN held.payload /\ held.payload["iss"] = Issuer
    /\ held' \in Tampered(held)
    /\ UNCHANGED <<secret_key_cache, key_env, key_log, jwt_op, clock,
                   refreshVars, validatorVars, managerVars, directoryVars, loginVars>>

JwtTick ==
    /\ clock < MaxClock
    /\ clock' = clock + 1
    /\ UNCHANGED <<secret_key_cache, key_env, key_log, held, jwt_op,
                   refreshVars, validatorVars, managerVars, directoryVars, loginVars>>

\* The secret in the store is rotated, or the store stops answering.
SecretStoreChange ==
    /\ key_env.secret_manager_enabled
    /\ \E secret \in {"", "k2", "k3"} :
          /\ secret # key_env.stored
          /\ key_env' = [key_env EXCEPT !.stored = secret]
    /\ UNCHANGED <<secret_key_cache, key_log, held, jwt_op, clock,
                   refreshVars, validatorVars, managerVars, directoryVars, loginVars>>

-----------------------------------------------------------------------------
(* /callback/{project_id}: callback.  One login attempt, from the project   *)
(* configuration and the identity the OAuth exchange returned to the point  *)
(* where the token pair has been signed.                                    *)

\* the first position of sub in s, 0 when s does not hold it
IndexOf(s, sub) ==
    IF Contains(s, sub)
      THEN CHOOSE i \in 1..Len(s) :
               /\ SubSeq(s, i, i + Len(sub) - 1) = sub
               /\ \A j \in 1..(i - 1) : SubSeq(s, j, j + Len(sub) - 1) # sub
      ELSE 0

\* s up to the first of the characters "/", "?" and "#"
RECURSIVE UpToDelimiter(_, _)
UpToDelimiter(s, delimiters) ==
    IF Len(s) = 0 \/ InChars(Char(s, 1), delimiters) THEN ""
    ELSE Char(s, 1) \o UpToDelimiter(SubSeq(s, 2, Len(s)), delimiters)

\* urllib.parse.urlparse for absolute "scheme://netloc/path?query" URIs and
\* for strings without "://", which have neither scheme nor netloc
urlparse(uri) ==
    LET at == IndexOf(uri, "://") IN
    IF at <= 1 THEN [scheme |-> "", netloc |-> "", path |-> UpToDelimiter(uri, "?#")]
    ELSE LET rest == SubSeq(uri, at + 3, Len(uri))
             netloc == UpToDelimiter(rest, "/?#")
         IN  [scheme |-> ToLower(SubSeq(uri, 1, at - 1)), netloc |-> netloc,
              path |-> UpToDelimiter(SubSeq(rest, Len(netloc) + 1, Len(rest)), "?#")]

UriBase(parsed) == ToLower(parsed.scheme) \o "://" \o ToLower(parsed.netloc)

\* does one allowed URI admit the redirect URI?
AllowedBy(parsed_redirect, allowed_uri) ==
    LET parsed_allowed == urlparse(allowed_uri)
        redirect_path == RStrip(parsed_redirect.path, "/")
        allowed_path == RStrip(parsed_allowed.path, "/")
    IN  /\ parsed_allowed.scheme # "" /\ parsed_allowed.netloc # ""
        /\ UriBase(parsed_redirect) = UriBase(parsed_allowed)
        /\ \/ redirect_path = allowed_path
           \/ allowed_path # "" /\ StartsWith(redirect_path, allowed_path \o "/")
           \/ allowed_path = "" \/ allowed_path = "/"

validate_redirect_uri(redirect_uri, allowed_uris) ==
    LET parsed_redirect == urlparse(redirect_uri)
    IN  /\ parsed_redirect.scheme # "" /\ parsed_redirect.netloc # ""
        /\ \E i \in 1..Len(allowed_uris) : AllowedBy(parsed_redirect, allowed_uris[i])

\* A project configuration as the handlers read it (dict.get defaults).
DefaultPolicy ==
    [allowed_domains |-> <<"i-seifu.jp">>, student_allowed |-> TRUE,
     admin_emails |-> << >>, required_groups |-> << >>, allowed_groups |-> << >>,
     required_org_units |-> << >>, allowed_org_units |-> << >>, role_rules |-> << >>,
     redirect_uris |-> <<"https://app.example/callback">>, token_delivery |-> "query_param"]

Rule(priority, role, condition_type, group_email, email_list) ==
    [priority |-> priority, role |-> role, condition_type |-> condition_type,
     group_email |-> group_email, email_pattern |-> "", email_list |-> email_list]

\* re.match for the patterns the rules below use: seven digits before the
\* "@", and a pattern that does not compile (re.error: no match).
SevenDigitLocal == "^\\d{7}@"
BadPattern == "("

re_match(pattern, s) ==
    CASE pattern = SevenDigitLocal ->
           Len(s) >= 8 /\ SevenDigits(SubSeq(s, 1, 7)) /\ Char(s, 8) = "@"
      [] pattern = BadPattern -> FALSE

PatternRule(priority, role, email_pattern) ==
    [Rule(priority, role, "email_pattern", "", << >>) EXCEPT !.email_pattern = email_pattern]

\* sorted(role_rules, key=priority): a stable insertion sort
RECURSIVE InsertByPriority(_, _)
InsertByPriority(rule, sorted) ==
    IF Len(sorted) = 0 THEN <<rule>>
    ELSE IF rule.priority < Head(sorted).priority THEN <<rule>> \o sorted
    ELSE <<Head(sorted)>> \o InsertByPriority(rule, Tail(sorted))

SortByPriorityListOrder(rules) == rules

RECURSIVE SortByPriority(_)
SortByPriority(rules) ==
    IF Len(rules) = 0 THEN << >>
    ELSE InsertByPriority(rules[Len(rules)], SortByPriority(SubSeq(rules, 1, Len(rules) - 1)))

RuleMatches(rule, email, user_groups) ==
    CASE rule.condition_type = "default" -> TRUE
      [] rule.condition_type = "group_membership" ->
           /\ rule.group_email # ""
           /\ user_groups.some /\ Len(user_groups.val) > 0
           /\ InList(ToLower(rule.group_email), LowerAll(user_groups.val))
      [] rule.condition_type = "email_pattern" ->
           rule.email_pattern # "" /\ re_match(rule.email_pattern, email)
      [] rule.condition_type = "email_list" ->
           InList(ToLower(email), LowerAll(rule.email_list))
      [] OTHER -> FALSE

\* The role of the first matching rule; "" when no rule matches.
RECURSIVE FirstMatch(_, _, _)
FirstMatch(rules, email, user_groups) ==
    IF Len(rules) = 0 THEN ""
    ELSE IF Head(rules).condition_type = "" \/ Head(rules).role = ""
      THEN FirstMatch(Tail(rules), email, user_groups)
    ELSE IF RuleMatches(Head(rules), email, user_groups) THEN Head(rules).role
    ELSE FirstMatch(Tail(rules), email, user_groups)

ResolveRole(email, role_rules, user_groups) ==
    FirstMatch(SortByPriority(role_rules), email, user_groups)

needs_groups_for_role(cfg) ==
    \E i \in 1..Len(cfg.role_rules) : cfg.role_rules[i].condition_type = "group_membership"

WantsGroups(cfg) ==
    Len(cfg.required_groups) > 0 \/ Len(cfg.allowed_groups) > 0 \/ needs_groups_for_role(cfg)

WantsOrgUnit(cfg) == Len(cfg.required_org_units) > 0 \/ Len(cfg.allowed_org_units) > 0

\* What the directory holds for the user, and whether a lookup gets through.
DirectoryGroups == {<< >>, <<"staff@i-seifu.jp">>, <<"office@i-seifu.jp", "staff@i-seifu.jp">>}
DirectoryOrgUnits == {"/Staff/Teachers", "/Students"}

\* WorkspaceAdminClient.get_user_groups: the groups, [] when the lookup fails
get_user_groups(lookup, groups) == IF lookup = "ok" THEN groups ELSE << >>

\* WorkspaceAdminClient.get_user_org_unit: the path, None when the lookup fails
get_user_org_unit(lookup, org_unit) == IF lookup = "ok" THEN Some(org_unit) ELSE NoOrgUnit

\* The handler re-raises the validation failure; otherwise it goes on.
AfterValidationSwallowed(kind) == "role"

AfterValidation(kind) == IF kind = "ok" THEN "role" ELSE "done"

NoAttempt ==
    [pc |-> "none", project_id |-> "", cfg |-> DefaultPolicy, email |-> "", name |-> "",
     groups_lookup |-> "not_called", org_unit_lookup |-> "not_called",
     user_groups |-> NoGroups, user_org_unit |-> NoOrgUnit,
     evaluated |-> << >>, denied |-> "", user_role |-> "", role_resolved |-> FALSE,
     tokens |-> NoPair, status |-> 0, error |-> "", location |-> "", carries |-> NoPair,
     client_state |-> ""]

\* request.session: "" and 0 stand for a key that is not set.  oauth_state
\* counts the logins of the session, each of which stores a fresh state token.
NoSession == [client_redirect_uri |-> "", client_state |-> "", oauth_state |-> 0,
              project_id |-> ""]

\* /login/{project_id}?redirect_uri=...&state=...
Login(project_id, redirect_uri, state) ==
    /\ cb.pc = "fetch"
    /\ session.oauth_state < MaxLogins
    /\ LET g == get_project_config(config_cache, config_store, project_id) IN
       /\ config_cache' = g.cache
       /\ IF g.err # "" THEN UNCHANGED session
          ELSE IF redirect_uri # "" /\ ~validate_redirect_uri(redirect_uri, g.config.redirect_uris)
            THEN UNCHANGED session
          ELSE session' = [client_redirect_uri |-> IF redirect_uri # "" THEN redirect_uri
                                                   ELSE session.client_redirect_uri,
                           client_state |-> IF state # "" THEN state ELSE session.client_state,
                           oauth_state |-> session.oauth_state + 1,
                           project_id |-> project_id]
    /\ UNCHANGED <<cb, audit, ws_initialized, used_tokens, req, issued, now, config_store,
                   sweepVars, validatorVars, managerVars, directoryVars, jwtVars>>

LoginIdle == cb = NoAttempt /\ audit = << >> /\ ws_initialized = FALSE /\ session = NoSession

\* lines 104-157: configuration, identity, directory lookups
CallbackFetch ==
    /\ cb.pc = "fetch"
    /\ IF ~ConfigFound(cb.project_id)
         THEN /\ cb' = [cb EXCEPT !.pc = "done", !.denied = "ProjectNotFound", !.status = 404]
              /\ UNCHANGED config_cache
         ELSE /\ config_cache' = get_project_config(config_cache, config_store, cb.project_id).cache
              /\ \E state_matches \in BOOLEAN,
                    gl \in {"ok", "failed"}, ol \in {"ok", "failed"},
                    dg \in DirectoryGroups, dou \in DirectoryOrgUnits :
                   LET lookups == (WantsGroups(cb.cfg) \/ WantsOrgUnit(cb.cfg)) /\ ws_initialized
                       g == lookups /\ WantsGroups(cb.cfg)
                       o == lookups /\ WantsOrgUnit(cb.cfg)
                   IN  IF session.oauth_state = 0 \/ ~state_matches
                         THEN cb' = [cb EXCEPT !.pc = "done", !.denied = "OAuthExchangeFailed",
                                               !.status = 500]
                       ELSE
                       cb' = [cb EXCEPT
                                !.pc = "validate",
                                !.groups_lookup = IF g THEN gl ELSE "not_called",
                                !.org_unit_lookup = IF o THEN ol ELSE "not_called",
                                !.user_groups = IF g THEN Some(get_user_groups(gl, dg))
                                                ELSE NoGroups,
                                !.user_org_unit = IF o THEN get_user_org_unit(ol, dou)
                                                  ELSE NoOrgUnit]
    /\ UNCHANGED <<audit, ws_initialized, session, used_tokens, req, issued, now, config_store,
                   sweepVars, validatorVars, managerVars, directoryVars, jwtVars>>

\* lines 159-186: validate_user_access; a failure is logged and re-raised
CallbackValidate ==
    /\ cb.pc = "validate"
    /\ LET r == validate_user_access(cb.email, cb.cfg, cb.user_groups, cb.user_org_unit)
       IN  /\ cb' = [cb EXCEPT !.pc = AfterValidation(r.kind),
                               !.evaluated = r.evaluated,
                               !.denied = IF r.kind = "ok" THEN "" ELSE r.kind]
           /\ audit' = IF r.kind = "ok" THEN audit ELSE Append(audit, "login_failed")
    /\ UNCHANGED <<ws_initialized, session, refreshVars, validatorVars, managerVars, directoryVars, jwtVars>>

\* lines 188-234: role resolution
CallbackResolveRole ==
    /\ cb.pc = "role"
    /\ cb' = [cb EXCEPT !.pc = "issue", !.role_resolved = TRUE,
                        !.user_role = IF Len(cb.cfg.role_rules) > 0
                                        THEN ResolveRole(cb.email, cb.cfg.role_rules, cb.user_groups)
                                        ELSE ""]
    /\ UNCHANGED <<audit, ws_initialized, session, refreshVars, validatorVars, managerVars, directoryVars, jwtVars>>

\* lines 236-278: sign the pair, record login_success; the delivery follows
CallbackIssue ==
    /\ cb.pc = "issue"
    /\ LET fresh == create_refresh_token(cb.email, cb.project_id, RefreshTtl, issued, now)
       IN  /\ cb' = [cb EXCEPT !.pc = "deliver",
                               !.tokens = [access |-> create_access_token(cb.email, cb.name,
                                                          cb.project_id, cb.user_role),
                                           refresh |-> fresh]]
           /\ issued' = issued \cup {fresh}
    /\ audit' = Append(audit, "login_success")
    /\ UNCHANGED <<ws_initialized, session, used_tokens, req, now, config_store, config_cache,
                   sweepVars, validatorVars, managerVars, directoryVars, jwtVars>>

\* lines 280-338: the redirect target from the session or the project's
\* first redirect URI, then the delivery by query parameters or cookies
CallbackDeliver ==
    /\ cb.pc = "deliver"
    /\ LET client_redirect_uri ==
               IF session.client_redirect_uri # "" THEN session.client_redirect_uri
               ELSE IF Len(cb.cfg.redirect_uris) > 0 THEN cb.cfg.redirect_uris[1]
               ELSE ""
       IN  IF client_redirect_uri = ""
             THEN /\ cb' = [cb EXCEPT !.pc = "done", !.status = 500, !.error = "ValueError"]
                  /\ session' = [session EXCEPT !.client_redirect_uri = ""]
           ELSE IF cb.cfg.token_delivery \in {"query_param", "cookie"}
             THEN /\ cb' = [cb EXCEPT !.pc = "done", !.status = 307,
                                      !.location = client_redirect_uri,
                                      !.carries = cb.tokens,
                                      !.client_state = session.client_state]
                  /\ session' = [session EXCEPT !.client_redirect_uri = "", !.client_state = ""]
           ELSE /\ cb' = [cb EXCEPT !.pc = "done", !.status = 500, !.error = "ValueError"]
                /\ session' = [session EXCEPT !.client_redirect_uri = "", !.client_state = ""]
    /\ UNCHANGED <<audit, ws_initialized, refreshVars, validatorVars, managerVars, directoryVars,
                   jwtVars>>


-----------------------------------------------------------------------------
(* /api/refresh: refresh_token_endpoint.  The handler takes the store's    *)
(* lock once inside is_token_used and once inside mark_token_as_used, so   *)
(* these are the units other requests can interleave with.                 *)

IpOf(r) == r

\* Tokens a client can present: the signed ones, and forgeries of them.
Presentable == issued \cup {[t EXCEPT !.sig = "bad"] : t \in issued}

\* preUsed records whether the jti was already in the store when the request
\* arrived; cfg is the result of the request's get_project_config call.
\* steps lists what the request has done so far, at the time it arrived.
IdleReq == [pc |-> "idle", tok |-> NoToken, outcome |-> "none",
            sawUsed |-> FALSE, preUsed |-> FALSE, cfg |-> "none", new |-> NoPair,
            steps |-> << >>, at |-> 0]

\* 1. verify the presented token, compare the body's project_id
RefreshVerify(r) ==
    /\ req[r].pc = "idle"
    /\ \E tok \in Presentable, body_pid \in Projects \cup {""} :
         LET v == verify_refresh_token(tok, now) IN
         IF v # "ok"
           THEN req' = [req EXCEPT ![r].pc = "done", ![r].tok = tok, ![r].outcome = v,
                                   ![r].at = now, ![r].steps = <<"verify">>]
         ELSE IF body_pid # "" /\ body_pid # tok.project_id
           THEN req' = [req EXCEPT ![r].pc = "done", ![r].tok = tok,
                                   ![r].outcome = "ProjectIdMismatch",
                                   ![r].at = now, ![r].steps = <<"verify">>]
         ELSE req' = [req EXCEPT ![r].pc = "check", ![r].tok = tok,
                                 ![r].preUsed = (tok.jti \in DOMAIN used_tokens),
                                 ![r].at = now, ![r].steps = <<"verify">>]
    /\ UNCHANGED <<used_tokens, issued, now, config_store, config_cache>>
    /\ UNCHANGED <<sweepVars, validatorVars, managerVars, directoryVars, loginVars, jwtVars>>

\* 2. is_token_used (under the lock); reuse ends the request
RefreshCheckUsed(r) ==
    /\ req[r].pc = "check"
    /\ store_lock = "free"
    /\ IF is_token_used(used_tokens, req[r].tok.jti)
         THEN req' = [req EXCEPT ![r].pc = "done", ![r].sawUsed = TRUE,
                                 ![r].outcome = "RefreshTokenReused",
                                 ![r].steps = Append(@, "is_token_used")]
         ELSE req' = [req EXCEPT ![r].pc = "mark", ![r].sawUsed = FALSE,
                                 ![r].steps = Append(@, "is_token_used")]
    /\ UNCHANGED <<used_tokens, issued, now, config_store, config_cache>>
    /\ UNCHANGED <<sweepVars, validatorVars, managerVars, directoryVars, loginVars, jwtVars>>

\* 3. mark_token_as_used (under the lock)
RefreshMark(r) ==
    /\ req[r].pc = "mark"
    /\ store_lock = "free"
    /\ used_tokens' = mark_token_as_used(used_tokens, req[r].tok.jti, req[r].tok.email,
                                         req[r].tok.project_id, now, IpOf(r))
    /\ req' = [req EXCEPT ![r].pc = "issue", ![r].steps = Append(@, "mark_token_as_used")]
    /\ UNCHANGED <<issued, now, config_store, config_cache>>
    /\ UNCHANGED <<sweepVars, validatorVars, managerVars, directoryVars, loginVars, jwtVars>>

\* 4.-7. load the project configuration, sign the new pair, answer
RefreshIssue(r) ==
    /\ req[r].pc = "issue"
    /\ LET tok == req[r].tok IN
       IF ~ConfigFound(tok.project_id)
         THEN /\ req' = [req EXCEPT ![r].pc = "done", ![r].cfg = "missing",
                                    ![r].outcome = "ProjectNotFound",
                                    ![r].steps = Append(@, "get_project_config")]
              /\ UNCHANGED <<issued, config_cache>>
         ELSE LET fresh == create_refresh_token(tok.email, tok.project_id,
                                                RefreshTtl, issued, now)
                  pair == [access |-> create_access_token(tok.email, "", tok.project_id, ""),
                           refresh |-> fresh]
              IN /\ req' = [req EXCEPT ![r].pc = "done", ![r].cfg = "found",
                                       ![r].outcome = "ok", ![r].new = pair,
                                       ![r].steps = @ \o <<"get_project_config", "create_tokens">>]
                 /\ issued' = issued \cup {fresh}
                 /\ config_cache' = get_project_config(config_cache, config_store,
                                                       tok.project_id).cache
    /\ UNCHANGED <<used_tokens, now, config_store>>
    /\ UNCHANGED <<sweepVars, validatorVars, managerVars, directoryVars, loginVars, jwtVars>>

\* ProjectConfigManager.delete_project: the source loses the project
DeleteProject(p) ==
    /\ p \in DOMAIN config_store
    /\ config_store' = delete_project(use_local_config, config_cache, config_store, p).store
    /\ UNCHANGED <<used_tokens, req, issued, now, config_cache>>
    /\ UNCHANGED <<sweepVars, validatorVars, managerVars, directoryVars, loginVars, jwtVars>>

Tick ==
    /\ now < MaxTime
    /\ now' = now + 1
    /\ UNCHANGED <<used_tokens, req, issued, config_store, config_cache>>
    /\ UNCHANGED <<sweepVars, validatorVars, managerVars, directoryVars, loginVars, jwtVars>>

-----------------------------------------------------------------------------
(* app/core/workspace_admin.py: get_user_groups with nested groups *)

\* What groups().list(userKey=key).execute() answers: a status and, when it
\* is "ok", the pages of group emails; every page but the last carries a
\* nextPageToken.  "exception" is a failure that is not an HttpError.
Listing(status, pages) == [status |-> status, pages |-> pages]

NotFound == Listing("404", << >>)

groups_list(dir, key) == IF key \in DOMAIN dir THEN dir[key] ELSE NotFound

RECURSIVE Flatten(_)
Flatten(pages) == IF Len(pages) = 0 THEN << >> ELSE Head(pages) \o Flatten(Tail(pages))

Elements(xs) == {xs[i] : i \in 1..Len(xs)}

\* the emails the direct-groups loop collects: it follows nextPageToken
DirectPages(listing) == Flatten(listing.pages)

ParentPagesAll(listing) == Flatten(listing.pages)

\* the emails the parent lookup reads: the first page only (pageToken=None, no loop)
ParentPages(listing) == IF Len(listing.pages) = 0 THEN << >> ELSE Head(listing.pages)

\* list(a_set): the elements in some order
Orderings(set) ==
    {q \in [1..Cardinality(set) -> set] : \A i, j \in 1..Cardinality(set) : i # j => q[i] # q[j]}

\* for parent_group in parent_result['groups']: new parents join all_groups and the queue
RECURSIVE AddParents(_, _, _)
AddParents(parents, all_groups, groups_to_check) ==
    IF Len(parents) = 0 THEN [all_groups |-> all_groups, groups_to_check |-> groups_to_check]
    ELSE IF Head(parents) \in all_groups
      THEN AddParents(Tail(parents), all_groups, groups_to_check)
    ELSE AddParents(Tail(parents), all_groups \cup {Head(parents)},
                    Append(groups_to_check, Head(parents)))

NoExpansion == [pc |-> "idle", user_email |-> "", initialized |-> FALSE, direct_groups |-> {},
                all_groups |-> {}, groups_to_check |-> << >>, checked_groups |-> {},
                queried |-> << >>, result |-> {}]

DirectoryIdle == directory = EmptyDict /\ expansion = NoExpansion

ReturnsGroups(x, groups) == [x EXCEPT !.pc = "done", !.result = groups]

\* lines 135-166: _ensure_initialized and the direct groups of the user
ListDirectGroups ==
    /\ expansion.pc = "start"
    /\ LET listing == groups_list(directory, expansion.user_email) IN
       IF ~expansion.initialized THEN expansion' = ReturnsGroups(expansion, {})
       ELSE IF listing.status # "ok"
         THEN expansion' = ReturnsGroups([expansion EXCEPT !.queried = <<expansion.user_email>>], {})
       ELSE \E order \in Orderings(Elements(DirectPages(listing))) :
              expansion' = [expansion EXCEPT
                              !.pc = "expand",
                              !.direct_groups = Elements(DirectPages(listing)),
                              !.all_groups = Elements(DirectPages(listing)),
                              !.groups_to_check = order,
                              !.queried = <<expansion.user_email>>]
    /\ UNCHANGED <<directory, refreshVars, validatorVars, managerVars, loginVars, jwtVars>>

\* lines 173-204: one turn of the while loop
ExpandGroup ==
    /\ expansion.pc = "expand"
    /\ Len(expansion.groups_to_check) > 0
    /\ LET current_group == Head(expansion.groups_to_check)
           rest == Tail(expansion.groups_to_check)
           listing == groups_list(directory, current_group)
       IN  IF current_group \in expansion.checked_groups
             THEN expansion' = [expansion EXCEPT !.groups_to_check = rest]
           ELSE IF listing.status = "exception"
             THEN expansion' = ReturnsGroups([expansion EXCEPT
                                          !.groups_to_check = rest,
                                          !.checked_groups = @ \cup {current_group},
                                          !.queried = Append(@, current_group)], {})
           ELSE IF listing.status # "ok"
             THEN expansion' = [expansion EXCEPT
                                  !.groups_to_check = rest,
                                  !.checked_groups = @ \cup {current_group},
                                  !.queried = Append(@, current_group)]
           ELSE LET a == AddParents(ParentPages(listing), expansion.all_groups, rest)
                IN  expansion' = [expansion EXCEPT
                                    !.groups_to_check = a.groups_to_check,
                                    !.all_groups = a.all_groups,
                                    !.checked_groups = @ \cup {current_group},
                                    !.queried = Append(@, current_group)]
    /\ UNCHANGED <<directory, refreshVars, validatorVars, managerVars, loginVars, jwtVars>>

\* lines 206-208: the queue is empty
ReturnGroups ==
    /\ expansion.pc = "expand"
    /\ Len(expansion.groups_to_check) = 0
    /\ expansion' = ReturnsGroups(expansion, expansion.all_groups)
    /\ UNCHANGED <<directory, refreshVars, validatorVars, managerVars, loginVars, jwtVars>>

NoManagerCall == [op |-> "none", project_id |-> "", err |-> "", config |-> EmptyDict,
                  returned |-> FALSE]

ManagerIdle == use_local_config = FALSE /\ config_op = NoManagerCall /\ stored_last = EmptyDict

\* What a call of the manager leaves behind.
ManagerDone(op, project_id, r) ==
    /\ config_cache' = r.cache
    /\ config_store' = r.store
    /\ config_op' = [op |-> op, project_id |-> project_id, err |-> r.err, config |-> r.config,
                     returned |-> r.returned]

ManagerGet(p) ==
    /\ ManagerDone("get_project_config", p, get_project_config(config_cache, config_store, p))
    /\ UNCHANGED <<stored_last, use_local_config>>
    /\ UNCHANGED <<used_tokens, req, issued, now, sweepVars, validatorVars, directoryVars,
                   loginVars, jwtVars>>

ManagerCreate(p, config) ==
    /\ ManagerDone("create_project", p, create_project(config_cache, config_store, p, config))
    /\ stored_last' = Update(stored_last, Entry(p, config))
    /\ UNCHANGED use_local_config
    /\ UNCHANGED <<used_tokens, req, issued, now, sweepVars, validatorVars, directoryVars,
                   loginVars, jwtVars>>

ManagerUpdate(p, updates) ==
    /\ LET r == update_project(use_local_config, config_cache, config_store, p, updates)
       IN  /\ ManagerDone("update_project", p, r)
           /\ stored_last' = IF r.err = "" THEN Update(stored_last, Entry(p, r.store[p]))
                             ELSE stored_last
    /\ UNCHANGED use_local_config
    /\ UNCHANGED <<used_tokens, req, issued, now, sweepVars, validatorVars, directoryVars,
                   loginVars, jwtVars>>

ManagerDelete(p) ==
    /\ LET r == delete_project(use_local_config, config_cache, config_store, p)
       IN  /\ ManagerDone("delete_project", p, r)
           /\ stored_last' = IF r.returned THEN Without(stored_last, {p}) ELSE stored_last
    /\ UNCHANGED use_local_config
    /\ UNCHANGED <<used_tokens, req, issued, now, sweepVars, validatorVars, directoryVars,
                   loginVars, jwtVars>>

\* The refresh endpoint never calls a validator.
NoCall == [fn |-> "none"]
NoResult == [done |-> FALSE]

RefreshIdle ==
    /\ used_tokens = << >>
    /\ req = [r \in Requests |-> IdleReq]
    /\ issued = {}
    /\ now = 0
    /\ config_store = EmptyDict
    /\ config_cache = EmptyDict
    /\ SweepIdle

ValidatorsIdle == vin = NoCall /\ vout = NoResult /\ ManagerIdle /\ DirectoryIdle

InitRefresh ==
    /\ ValidatorsIdle
    /\ LoginIdle
    /\ JwtIdle
    /\ used_tokens = << >>
    /\ req = [r \in Requests |-> IdleReq]
    /\ issued = {create_refresh_token("yamada@i-seifu.jp", "p1", RefreshTtl, {}, 0)}
    /\ now = 0
    /\ config_store = Entry("p1", DefaultPolicy)
    /\ config_cache = EmptyDict
    /\ SweepIdle

NextRefresh ==
    \/ \E r \in Requests : RefreshVerify(r)
    \/ \E r \in Requests : RefreshCheckUsed(r)
    \/ \E r \in Requests : RefreshMark(r)
    \/ \E r \in Requests : RefreshIssue(r)
    \/ \E p \in Projects : DeleteProject(p)
    \/ Tick

SpecRefresh == InitRefresh /\ [][NextRefresh]_vars

-----------------------------------------------------------------------------
(* The refresh endpoint next to a periodic retention sweep of the store.   *)

SweepAges == {0, 1}

\* cleanup_expired takes the lock and fixes the cutoff
CleanupBegin ==
    /\ store_lock = "free"
    /\ \E max_age_days \in SweepAges : sweep' = [cutoff |-> now - max_age_days]
    /\ store_lock' = "cleanup"
    /\ UNCHANGED <<used_tokens, req, issued, now, config_store, config_cache>>
    /\ UNCHANGED <<validatorVars, managerVars, directoryVars, loginVars, jwtVars>>

\* it replaces the dict by the records it keeps and releases the lock
CleanupCommit ==
    /\ store_lock = "cleanup"
    /\ used_tokens' = cleanup_expired(used_tokens, sweep.cutoff)
    /\ store_lock' = "free"
    /\ sweep' = NoSweep
    /\ UNCHANGED <<req, issued, now, config_store, config_cache>>
    /\ UNCHANGED <<validatorVars, managerVars, directoryVars, loginVars, jwtVars>>

NextSweep ==
    \/ \E r \in Requests : RefreshVerify(r)
    \/ \E r \in Requests : RefreshCheckUsed(r)
    \/ \E r \in Requests : RefreshMark(r)
    \/ \E r \in Requests : RefreshIssue(r)
    \/ Tick
    \/ CleanupBegin
    \/ CleanupCommit

SpecSweep == InitRefresh /\ [][NextSweep]_vars

-----------------------------------------------------------------------------
(* The validators, called on their own.  A call is drawn from ValidatorCalls *)
(* and the function applied to it.                                           *)


\* Addresses are put together from a local part and a domain.
Locals == {"yamada", "H.Hamada", "1234567", "123456", "12345678", "123456a", "ya mada", ""}
Hosts == {"i-seifu.jp", "I-SEIFU.JP", "sub.i-seifu.jp", "xi-seifu.jp", "i-seifu.jp.evil.com",
          "evil.com", "i-seifu.j", "i-seifu.j9", "i-seifu"}
Shapes == {"plain", "no_at", "two_at", "second_host", "line_feed"}

EmailOf(local, host, shape) ==
    CASE shape = "plain" -> local \o "@" \o host
      [] shape = "no_at" -> local \o host
      [] shape = "two_at" -> local \o "@@" \o host
      [] shape = "second_host" -> local \o "@" \o host \o "@" \o host
      [] shape = "line_feed" -> local \o "@" \o host \o "\n"

Call(fn, local, host, shape, cfg, groups, ou) ==
    [fn |-> fn, local |-> local, host |-> host, shape |-> shape,
     email |-> EmailOf(local, host, shape), cfg |-> cfg, groups |-> groups, ou |-> ou]

DomainLists == {<< >>, <<"i-seifu.jp">>, <<"example.com", "I-Seifu.JP">>}
AdminLists == {<< >>, <<"h.hamada@i-seifu.jp">>, <<"root@i-seifu.jp", "Yamada@I-Seifu.jp">>}
GroupLists == {<< >>, <<"staff@i-seifu.jp">>, <<"Staff@I-Seifu.jp", "office@i-seifu.jp">>}
UserGroupLists == {<< >>, <<"staff@i-seifu.jp">>, <<"OFFICE@i-seifu.jp">>,
                   <<"office@i-seifu.jp", "staff@i-seifu.jp">>, <<"guest@i-seifu.jp">>}
OrgUnitLists == {<< >>, <<"/Staff">>, <<"/Staff/Teachers", "/Office">>}
UserOrgUnits == {"/Staff", "/Staff/Teachers/", "/Students"}

DomainCalls ==
    {Call("validate_domain", l, h, sh, [DefaultPolicy EXCEPT !.allowed_domains = a],
          NoGroups, NoOrgUnit) :
        l \in {"yamada", "1234567", "ya mada", ""}, h \in Hosts, sh \in Shapes, a \in DomainLists}

StudentCalls ==
    {Call("validate_student_access", l, h, sh, [DefaultPolicy EXCEPT !.student_allowed = st],
          NoGroups, NoOrgUnit) :
        l \in Locals, h \in {"i-seifu.jp", "I-SEIFU.JP", "evil.com"},
        sh \in {"plain", "no_at"}, st \in BOOLEAN}

AdminCalls ==
    {Call("validate_admin_access", l, h, "plain", [DefaultPolicy EXCEPT !.admin_emails = a],
          NoGroups, NoOrgUnit) :
        l \in {"yamada", "H.Hamada", "h.hamada", "1234567"}, h \in {"i-seifu.jp", "I-SEIFU.JP", "evil.com"},
        a \in AdminLists}

GroupCalls ==
    {Call("validate_group_membership", "yamada", "i-seifu.jp", "plain",
          [DefaultPolicy EXCEPT !.required_groups = rq, !.allowed_groups = al],
          Some(ug), NoOrgUnit) :
        rq \in GroupLists, al \in GroupLists \cup {<<"guest@i-seifu.jp">>}, ug \in UserGroupLists}

AccessCalls ==
    {Call("validate_user_access", l, h, "plain",
          [DefaultPolicy EXCEPT !.student_allowed = st, !.admin_emails = ad,
                                !.required_groups = rq, !.allowed_groups = al,
                                !.required_org_units = rou, !.allowed_org_units = aou],
          g, ou) :
        l \in {"H.Hamada", "1234567"}, h \in {"i-seifu.jp", "sub.i-seifu.jp"},
        st \in BOOLEAN, ad \in {<< >>, <<"h.hamada@i-seifu.jp">>},
        rq \in {<< >>, <<"staff@i-seifu.jp">>}, al \in {<< >>, <<"office@i-seifu.jp">>},
        rou \in {<< >>, <<"/Staff">>}, aou \in {<< >>, <<"/Staff/Teachers", "/Office">>},
        g \in {NoGroups, Some(<<"staff@i-seifu.jp">>),
               Some(<<"office@i-seifu.jp", "staff@i-seifu.jp">>)},
        ou \in {NoOrgUnit, Some("/Staff/Teachers/"), Some("/Students")}}
    \cup
    {Call("validate_user_access", l, h, sh, DefaultPolicy, NoGroups, NoOrgUnit) :
        l \in {"yamada", "ya mada"}, h \in Hosts, sh \in Shapes}
    \cup
    {Call("validate_user_access", "H.Hamada", "i-seifu.jp", "plain",
          [DefaultPolicy EXCEPT !.required_groups = rq, !.allowed_groups = al,
                                !.required_org_units = rou, !.allowed_org_units = aou],
          Some(g), Some(ou)) :
        rq \in {<< >>, <<"staff@i-seifu.jp">>}, al \in {<<"required-readers@i-seifu.jp">>},
        rou \in {<< >>, <<"/Staff">>}, aou \in {<<"/Staff/required-courses">>},
        g \in {<<"staff@i-seifu.jp">>, <<"staff@i-seifu.jp", "required-readers@i-seifu.jp">>},
        ou \in {"/Staff/Teachers", "/Staff/required-courses/Maths"}}

OrgUnitPaths == {"/A", "/A/", "/A/B", "/A/B/", "/AB", "/A//", "/B/A", "/", ""}

HierarchyCalls ==
    {Call("check_org_unit_hierarchy", "yamada", "i-seifu.jp", "plain",
          [DefaultPolicy EXCEPT !.allowed_org_units = <<a>>], NoGroups, Some(u)) :
        u \in OrgUnitPaths, a \in OrgUnitPaths}

ValidatorCalls ==
    DomainCalls \cup StudentCalls \cup AdminCalls \cup GroupCalls \cup AccessCalls
    \cup HierarchyCalls

Returned(ok, kind, evaluated) ==
    [done |-> TRUE, ok |-> ok, kind |-> kind, evaluated |-> evaluated]

ApplyValidateDomain ==
    /\ vin.fn = "validate_domain" /\ ~vout.done
    /\ vout' = Returned(validate_domain(vin.email, vin.cfg.allowed_domains), "", << >>)
    /\ UNCHANGED <<vin, managerVars, directoryVars, refreshVars, loginVars, jwtVars>>

ApplyValidateStudentAccess ==
    /\ vin.fn = "validate_student_access" /\ ~vout.done
    /\ vout' = Returned(validate_student_access(vin.email, vin.cfg.student_allowed), "", << >>)
    /\ UNCHANGED <<vin, managerVars, directoryVars, refreshVars, loginVars, jwtVars>>

ApplyValidateAdminAccess ==
    /\ vin.fn = "validate_admin_access" /\ ~vout.done
    /\ vout' = Returned(validate_admin_access(vin.email, vin.cfg.admin_emails), "", << >>)
    /\ UNCHANGED <<vin, managerVars, directoryVars, refreshVars, loginVars, jwtVars>>

ApplyValidateGroupMembership ==
    /\ vin.fn = "validate_group_membership" /\ ~vout.done
    /\ vout' = Returned(validate_group_membership(vin.groups.val, vin.cfg.required_groups,
                                                  vin.cfg.allowed_groups).ok, "", << >>)
    /\ UNCHANGED <<vin, managerVars, directoryVars, refreshVars, loginVars, jwtVars>>

ApplyCheckOrgUnitHierarchy ==
    /\ vin.fn = "check_org_unit_hierarchy" /\ ~vout.done
    /\ vout' = Returned(check_org_unit_hierarchy(vin.ou.val, vin.cfg.allowed_org_units[1]),
                        "", << >>)
    /\ UNCHANGED <<vin, managerVars, directoryVars, refreshVars, loginVars, jwtVars>>

ApplyValidateUserAccess ==
    /\ vin.fn = "validate_user_access" /\ ~vout.done
    /\ LET r == validate_user_access(vin.email, vin.cfg, vin.groups, vin.ou)
       IN  vout' = Returned(r.kind = "ok", r.kind, r.evaluated)
    /\ UNCHANGED <<vin, managerVars, directoryVars, refreshVars, loginVars, jwtVars>>

InitValidators ==
    /\ ManagerIdle
    /\ DirectoryIdle
    /\ vin \in ValidatorCalls
    /\ vout = NoResult
    /\ RefreshIdle
    /\ LoginIdle
    /\ JwtIdle

NextValidators ==
    \/ ApplyValidateDomain
    \/ ApplyValidateStudentAccess
    \/ ApplyValidateAdminAccess
    \/ ApplyValidateGroupMembership
    \/ ApplyCheckOrgUnitHierarchy
    \/ ApplyValidateUserAccess

SpecValidators == InitValidators /\ [][NextValidators]_vars

(* Calls of HMACSignatureGenerator.generate_signature *)

Secrets == {"test-secret", "other-secret"}
Timestamps == {"1234567890", "1234567891"}
Methods == {"post", "POST", "Post", "get", "GET"}
Paths == {"/v1/models", "/v1/chat/product-SlideVideo"}

Bodies ==
    {<< >>,
     <<Item("model", JStr("dall-e-3")), Item("n", JInt(1))>>,
     <<Item("n", JInt(1)), Item("model", JStr("dall-e-3"))>>,
     <<Item("n", JInt(10)), Item("model", JStr("dall-e-3"))>>,
     <<Item("model", JStr("dall-e-3")), Item("messages", JDict(<<Item("role", JStr("user")),
                                                                 Item("content", JStr("test"))>>))>>,
     <<Item("messages", JDict(<<Item("content", JStr("test")), Item("role", JStr("user"))>>)),
       Item("model", JStr("dall-e-3"))>>,
     <<Item("size", JStr("1024x1024")), Item("Size", JStr("1024x1024")), Item("n", JInt(1))>>,
     <<Item("n", JInt(1)), Item("Size", JStr("1024x1024")), Item("size", JStr("1024x1024"))>>}

SignerCalls ==
    {[fn |-> "generate_signature", client_secret |-> k, timestamp |-> ts, method |-> m,
      path |-> p, body |-> b] :
        k \in Secrets, ts \in Timestamps, m \in Methods, p \in Paths, b \in Bodies}

ApplyGenerateSignature ==
    /\ vin.fn = "generate_signature" /\ ~vout.done
    /\ vout' = [done |-> TRUE,
                signature |-> generate_signature(vin.client_secret, vin.timestamp, vin.method,
                                                 vin.path, vin.body)]
    /\ UNCHANGED <<vin, managerVars, directoryVars, refreshVars, loginVars, jwtVars>>

InitSigner ==
    /\ ManagerIdle
    /\ DirectoryIdle
    /\ vin \in SignerCalls
    /\ vout = NoResult
    /\ RefreshIdle
    /\ LoginIdle
    /\ JwtIdle

NextSigner == ApplyGenerateSignature

SpecSigner == InitSigner /\ [][NextSigner]_vars

(* Calls of ProjectConfigManager *)

ManagedProjects == Projects

ProjectConfigs == {[token_delivery |-> "cookie"], [token_delivery |-> "query_param"]}

ProjectUpdates == {[token_expiry_days |-> 7]}

InitManager ==
    /\ use_local_config \in BOOLEAN
    /\ config_op = NoManagerCall
    /\ stored_last = EmptyDict
    /\ used_tokens = << >>
    /\ req = [r \in Requests |-> IdleReq]
    /\ issued = {}
    /\ now = 0
    /\ config_store = EmptyDict
    /\ config_cache = EmptyDict
    /\ SweepIdle
    /\ vin = NoCall /\ vout = NoResult
    /\ DirectoryIdle
    /\ LoginIdle
    /\ JwtIdle

NextManager ==
    \/ \E p \in ManagedProjects : ManagerGet(p)
    \/ \E p \in ManagedProjects, config \in ProjectConfigs : ManagerCreate(p, config)
    \/ \E p \in ManagedProjects, updates \in ProjectUpdates : ManagerUpdate(p, updates)
    \/ \E p \in ManagedProjects : ManagerDelete(p)

SpecManager == InitManager /\ [][NextManager]_vars

(* Calls of WorkspaceAdminClient.get_user_groups *)

GroupEmails == {"a@i-seifu.jp", "b@i-seifu.jp", "c@i-seifu.jp"}

UserListings ==
    {Listing("ok", << >>), Listing("ok", <<<<"a@i-seifu.jp">>>>),
     Listing("ok", <<<<"a@i-seifu.jp">>, <<"b@i-seifu.jp">>>>),
     Listing("ok", <<<<"b@i-seifu.jp", "a@i-seifu.jp">>>>), Listing("403", << >>)}

GroupListings ==
    {Listing("ok", << >>)} \cup {Listing("ok", <<<<g>>>>) : g \in GroupEmails}
    \cup {Listing("ok", <<<<"b@i-seifu.jp">>, <<"c@i-seifu.jp">>>>),
          Listing("ok", <<<<"c@i-seifu.jp", "a@i-seifu.jp">>>>),
          Listing("403", << >>), Listing("500", << >>), Listing("exception", << >>)}

Directories ==
    {[k \in {"yamada@i-seifu.jp"} \cup GroupEmails |->
        IF k = "yamada@i-seifu.jp" THEN u ELSE g[k]] :
        u \in UserListings, g \in [GroupEmails -> GroupListings]}

InitDirectory ==
    /\ directory \in Directories
    /\ \E init \in BOOLEAN :
          expansion = [NoExpansion EXCEPT !.pc = "start", !.user_email = "yamada@i-seifu.jp",
                                          !.initialized = init]
    /\ RefreshIdle
    /\ vin = NoCall /\ vout = NoResult
    /\ ManagerIdle
    /\ LoginIdle
    /\ JwtIdle

NextDirectory ==
    \/ ListDirectGroups
    \/ ExpandGroup
    \/ ReturnGroups

SpecDirectory == InitDirectory /\ [][NextDirectory]_vars

\* every started call is carried on until it returns
FairDirectory == SpecDirectory /\ WF_vars(NextDirectory)

-----------------------------------------------------------------------------
(* Login attempts: every policy and identity below, with the directory client *)
(* initialised or not.                                                      *)

RoleRuleLists ==
    {<< >>,
     <<Rule(4, "student", "default", "", << >>),
       Rule(1, "office", "group_membership", "office@i-seifu.jp", << >>)>>}

LoginPolicies ==
    {[DefaultPolicy EXCEPT !.student_allowed = st, !.admin_emails = ad,
                           !.required_groups = rq, !.allowed_groups = al,
                           !.required_org_units = rou, !.allowed_org_units = aou,
                           !.role_rules = rr] :
        st \in BOOLEAN, ad \in {<< >>, <<"h.hamada@i-seifu.jp">>},
        rq \in {<< >>, <<"staff@i-seifu.jp">>}, al \in {<< >>, <<"office@i-seifu.jp">>},
        rou \in {<< >>, <<"/Staff">>}, aou \in {<< >>, <<"/Staff/Teachers", "/Office">>},
        rr \in RoleRuleLists}

LoginEmails == {"H.Hamada@i-seifu.jp", "1234567@i-seifu.jp", "yamada@sub.i-seifu.jp"}

\* Rule lists that differ in list order, priorities, ties and conditions.
OrderedRoleRuleLists ==
    {<<Rule(9, "guest", "default", "", << >>),
       Rule(1, "office", "group_membership", "Office@i-seifu.jp", << >>),
       PatternRule(2, "student", SevenDigitLocal),
       Rule(3, "teacher", "email_list", "", <<"h.hamada@I-SEIFU.jp">>)>>,
     <<Rule(2, "first", "default", "", << >>),
       Rule(2, "second", "email_list", "", <<"H.Hamada@i-seifu.jp">>),
       Rule(1, "student", "email_list", "", <<"1234567@i-seifu.jp">>)>>,
     <<Rule(3, "teacher", "email_list", "", <<"H.Hamada@i-seifu.jp">>),
       PatternRule(3, "student", SevenDigitLocal),
       PatternRule(1, "broken", BadPattern),
       PatternRule(2, "unset", "")>>,
     <<Rule(1, "", "default", "", << >>),
       Rule(2, "nobody", "", "", << >>),
       Rule(3, "office", "group_membership", "", << >>),
       Rule(4, "student", "email_match", "", <<"1234567@i-seifu.jp">>),
       Rule(5, "staff", "group_membership", "staff@i-seifu.jp", << >>)>>}

RolePolicies == {[DefaultPolicy EXCEPT !.role_rules = rr] : rr \in OrderedRoleRuleLists}

\* config.py: the role_rules of LOCAL_PROJECT_CONFIGS["shinro-compass"]
ShinroCompassRoleRules ==
    <<[priority |-> 1, role |-> "admin", condition_type |-> "email_match",
       emails |-> <<"h.hamada@i-seifu.jp">>],
      [priority |-> 2, role |-> "office", condition_type |-> "group_membership",
       group_email |-> "office@i-seifu.jp"],
      [priority |-> 3, role |-> "teacher", condition_type |-> "group_membership",
       group_email |-> "staff@i-seifu.jp"],
      [priority |-> 4, role |-> "student", condition_type |-> "default"]>>

\* the policy fields of LOCAL_PROJECT_CONFIGS["shinro-compass"]
ShinroCompass ==
    [DefaultPolicy EXCEPT !.student_allowed = TRUE, !.admin_emails = <<"h.hamada@i-seifu.jp">>,
                          !.role_rules = ShinroCompassRoleRules,
                          !.redirect_uris = <<"http://localhost:3000/callback">>,
                          !.token_delivery = "cookie"]

InitLogin ==
    /\ \E cfg \in LoginPolicies \cup RolePolicies, email \in LoginEmails :
          cb = [NoAttempt EXCEPT !.pc = "fetch", !.project_id = "p1", !.cfg = cfg,
                                 !.email = email, !.name = "name"]
    /\ audit = << >>
    /\ ws_initialized \in BOOLEAN
    /\ session = [NoSession EXCEPT !.oauth_state = 1, !.project_id = "p1"]
    /\ used_tokens = << >>
    /\ req = [r \in Requests |-> IdleReq]
    /\ issued = {}
    /\ now = 0
    /\ config_store \in {Entry("p1", cb.cfg), EmptyDict}
    /\ config_cache = EmptyDict
    /\ SweepIdle
    /\ ValidatorsIdle
    /\ JwtIdle

NextLogin ==
    \/ CallbackFetch
    \/ CallbackValidate
    \/ CallbackResolveRole
    \/ CallbackIssue
    \/ CallbackDeliver

SpecLogin == InitLogin /\ [][NextLogin]_vars

(* one /callback for the built-in project shinro-compass *)

ShinroCompassEmails ==
    LoginEmails \cup {"h.hamada@i-seifu.jp", "teacher@i-seifu.jp", "clerk@i-seifu.jp"}

InitShinroCompass ==
    /\ \E email \in ShinroCompassEmails :
          cb = [NoAttempt EXCEPT !.pc = "fetch", !.project_id = "shinro-compass",
                                 !.cfg = ShinroCompass, !.email = email, !.name = "name"]
    /\ audit = << >>
    /\ ws_initialized \in BOOLEAN
    /\ session = [NoSession EXCEPT !.oauth_state = 1, !.project_id = "shinro-compass"]
    /\ used_tokens = << >>
    /\ req = [r \in Requests |-> IdleReq]
    /\ issued = {}
    /\ now = 0
    /\ config_store = Entry("shinro-compass", ShinroCompass)
    /\ config_cache = EmptyDict
    /\ SweepIdle
    /\ ValidatorsIdle
    /\ JwtIdle

SpecShinroCompass == InitShinroCompass /\ [][NextLogin]_vars

(* /login requests and one /callback in one browser session *)

DeliveryPolicies ==
    {[DefaultPolicy EXCEPT !.redirect_uris = ru, !.token_delivery = td] :
        ru \in {<< >>, <<"https://app.example/callback">>},
        td \in {"query_param", "cookie", "header"}}

OtherProject == [DefaultPolicy EXCEPT !.redirect_uris = <<"https://other.example/cb">>]

RedirectUris ==
    {"", "https://app.example/callback/done", "HTTPS://APP.example/callback/",
     "https://app.example/callbackx", "https://other.example/cb", "/callback"}

ClientStates == {"", "xyz"}

InitSession ==
    /\ \E cfg \in DeliveryPolicies, email \in {"H.Hamada@i-seifu.jp", "yamada@sub.i-seifu.jp"} :
          cb = [NoAttempt EXCEPT !.pc = "fetch", !.project_id = "p1", !.cfg = cfg,
                                 !.email = email, !.name = "name"]
    /\ audit = << >>
    /\ ws_initialized = FALSE
    /\ session = NoSession
    /\ used_tokens = << >>
    /\ req = [r \in Requests |-> IdleReq]
    /\ issued = {}
    /\ now = 0
    /\ config_store = Update(Entry("p1", cb.cfg), Entry("p2", OtherProject))
    /\ config_cache = EmptyDict
    /\ SweepIdle
    /\ ValidatorsIdle
    /\ JwtIdle

NextSession ==
    \/ \E p \in Projects, redirect_uri \in RedirectUris, state \in ClientStates :
          Login(p, redirect_uri, state)
    \/ CallbackFetch
    \/ CallbackValidate
    \/ CallbackResolveRole
    \/ CallbackIssue
    \/ CallbackDeliver

SpecSession == InitSession /\ [][NextSession]_vars

-----------------------------------------------------------------------------
(* The JWT handler under every configuration of the key sources.            *)

\* A token the client got from this deployment before the handler started.
EarlierToken ==
    jwt_encode([email |-> "yamada@i-seifu.jp", name |-> "Yamada", project_id |-> "p1",
                iat |-> 0, exp |-> JwtExpiryDays * TicksPerDay, iss |-> Issuer,
                sub |-> "yamada@i-seifu.jp", role |-> "student"], "k1")

InitJwt ==
    /\ secret_key_cache = ""
    /\ key_env \in [secret_manager_enabled : BOOLEAN, jwt_secret_key : {"", "k1"},
                    stored : {"", "k2"}]
    /\ key_log = NoKeyLog
    /\ held \in {NoJwt, EarlierToken}
    /\ jwt_op = NoOp
    /\ clock = 0
    /\ RefreshIdle
    /\ ValidatorsIdle
    /\ LoginIdle

NextJwt ==
    \/ JwtCreate
    \/ JwtVerify
    \/ JwtRefresh
    \/ JwtTamper
    \/ JwtTick
    \/ SecretStoreChange

SpecJwt == InitJwt /\ [][NextJwt]_vars

-----------------------------------------------------------------------------
(* Properties of the refresh endpoint *)

\* The request reached the used-token store with a verified token.
Redeemed(r) == req[r].pc = "done" /\ req[r].outcome \in {"ok", "RefreshTokenReused", "ProjectNotFound"}

Succeeded(r) == req[r].pc = "done" /\ req[r].outcome = "ok"

SameJti(r1, r2) == req[r1].tok.jti = req[r2].tok.jti

\* C1: two requests that present the same valid, not yet used refresh token
\* concurrently never both succeed; when they are the only two, exactly one
\* returns a new pair and the other fails with RefreshTokenReused.
C1_ExactlyOneSucceeds ==
    \A r1, r2 \in Requests :
        ( /\ r1 # r2 /\ SameJti(r1, r2)
          /\ req[r1].pc = "done" /\ req[r2].pc = "done"
          /\ req[r1].outcome \in {"ok", "RefreshTokenReused"}
          /\ req[r2].outcome \in {"ok", "RefreshTokenReused"}
          /\ ~req[r1].preUsed /\ ~req[r2].preUsed )
        => /\ ~(Succeeded(r1) /\ Succeeded(r2))
           /\ (\A r3 \in Requests \ {r1, r2} : ~(Redeemed(r3) /\ SameJti(r1, r3)))
                 => (Succeeded(r1) \/ Succeeded(r2))

-----------------------------------------------------------------------------
(* Properties of the validators *)

\* The same text up to the case of its letters.
SameLetter(c, d) ==
    \/ c = d
    \/ \E k \in 1..Len(UpperChars) : {c, d} = {Char(UpperChars, k), Char(LowerChars, k)}

EqIgnoreCase(a, b) ==
    Len(a) = Len(b) /\ \A i \in 1..Len(a) : SameLetter(Char(a, i), Char(b, i))

\* Which of the parts the addresses are put together from are well formed.
WellFormedLocals == {"yamada", "H.Hamada", "h.hamada", "1234567", "123456", "12345678", "123456a"}
WellFormedHosts == {"i-seifu.jp", "I-SEIFU.JP", "sub.i-seifu.jp", "xi-seifu.jp",
                    "i-seifu.jp.evil.com", "evil.com"}

WellFormed(call) ==
    call.shape = "plain" /\ call.local \in WellFormedLocals /\ call.host \in WellFormedHosts

DomainAllowed(call) ==
    /\ WellFormed(call)
    /\ \E i \in 1..Len(call.cfg.allowed_domains) :
          EqIgnoreCase(call.host, call.cfg.allowed_domains[i])

ExactlySevenDigits(local) ==
    Len(local) = 7 /\ \A i \in 1..7 : Char(local, i) \in {"0", "1", "2", "3", "4", "5", "6", "7", "8", "9"}

StudentDenied(call) == ~call.cfg.student_allowed /\ ExactlySevenDigits(call.local)

AdminAllowed(call) ==
    \/ call.cfg.admin_emails = << >>
    \/ \E i \in 1..Len(call.cfg.admin_emails) : EqIgnoreCase(call.email, call.cfg.admin_emails[i])

GroupsAllowed(call) ==
    LET ug == call.groups.val
        rq == call.cfg.required_groups
        al == call.cfg.allowed_groups
    IN  /\ rq = << >> \/ \A i \in 1..Len(rq) : \E j \in 1..Len(ug) : EqIgnoreCase(rq[i], ug[j])
        /\ al = << >> \/ \E j \in 1..Len(ug) : \E i \in 1..Len(al) : EqIgnoreCase(ug[j], al[i])

Returns(fn) == vout.done /\ vin.fn = fn

\* C7: validate_domain accepts an address iff it is a well-formed local@domain
\* whose domain equals an allowed entry up to letter case; subdomains and
\* malformed addresses are rejected, and validate_user_access reports exactly
\* these rejections as InvalidDomain.
C7_DomainExactMatch ==
    /\ Returns("validate_domain") => (vout.ok <=> DomainAllowed(vin))
    /\ Returns("validate_user_access") => ((vout.kind = "InvalidDomain") <=> ~DomainAllowed(vin))

C7_Witness ==
    /\ Returns("validate_domain") /\ ~vout.ok
    /\ vin.shape = "plain" /\ vin.local = "yamada" /\ vin.host = "sub.i-seifu.jp"
    /\ vin.cfg.allowed_domains = <<"i-seifu.jp">>

\* C8: for an address that passed the domain check, the student check fails
\* (StudentNotAllowed) iff student_allowed is false and the local part is
\* exactly 7 digits.
C8_StudentSevenDigits ==
    /\ (Returns("validate_student_access") /\ DomainAllowed(vin))
          => (~vout.ok <=> StudentDenied(vin))
    /\ (Returns("validate_user_access") /\ DomainAllowed(vin))
          => ((vout.kind = "StudentNotAllowed") <=> StudentDenied(vin))

C8_Witness ==
    /\ Returns("validate_user_access") /\ vout.kind = "StudentNotAllowed"
    /\ vin.local = "1234567" /\ ~vin.cfg.student_allowed

\* C9: the admin-only check passes for every address when admin_emails is
\* empty, otherwise iff the address equals an entry up to letter case; the
\* pipeline reports its failure as AdminOnly.
C9_AdminOnly ==
    /\ Returns("validate_admin_access") => (vout.ok <=> AdminAllowed(vin))
    /\ (Returns("validate_user_access") /\ DomainAllowed(vin) /\ ~StudentDenied(vin))
          => ((vout.kind = "AdminOnly") <=> ~AdminAllowed(vin))

C9_Witness ==
    /\ Returns("validate_admin_access") /\ vout.ok
    /\ vin.email = "H.Hamada@i-seifu.jp" /\ vin.cfg.admin_emails = <<"h.hamada@i-seifu.jp">>

\* C10: with the user's groups supplied, the group check passes iff every
\* required group is among them (or none is required) and at least one of
\* them is an allowed group (or none is configured), up to letter case.
C10_GroupCheck ==
    Returns("validate_group_membership") => (vout.ok <=> GroupsAllowed(vin))

C10_Witness ==
    /\ Returns("validate_group_membership") /\ ~vout.ok
    /\ vin.cfg.required_groups = <<"staff@i-seifu.jp">>
    /\ vin.cfg.allowed_groups = <<"guest@i-seifu.jp">>
    /\ vin.groups.val = <<"staff@i-seifu.jp">>

\* The order of the checks, and which of them would fail on their own.
CheckOrder == <<"domain", "student", "admin", "group", "org_unit">>

CheckFails(i, call) ==
    CASE i = 1 -> ~validate_domain(call.email, call.cfg.allowed_domains)
      [] i = 2 -> ~validate_student_access(call.email, call.cfg.student_allowed)
      [] i = 3 -> ~validate_admin_access(call.email, call.cfg.admin_emails)
      [] i = 4 -> /\ call.groups.some
                  /\ ~validate_group_membership(call.groups.val, call.cfg.required_groups,
                                                call.cfg.allowed_groups).ok
      [] i = 5 -> /\ call.ou.some
                  /\ ~validate_org_unit_membership(call.ou, call.cfg.required_org_units,
                                                   call.cfg.allowed_org_units).ok

FailingChecks(call) == {i \in 1..Len(CheckOrder) : CheckFails(i, call)}

KindsOfCheck(i) ==
    CASE i = 1 -> {"InvalidDomain"}
      [] i = 2 -> {"StudentNotAllowed"}
      [] i = 3 -> {"AdminOnly"}
      [] i = 4 -> {"GroupMembershipRequired", "NoMatchingGroup"}
      [] i = 5 -> {"OrgUnitRequired", "NoMatchingOrgUnit"}

FirstFailing(call) == CHOOSE i \in FailingChecks(call) : \A j \in FailingChecks(call) : i <= j

\* The checks that run, in order, up to and including the i-th.
RECURSIVE RanUpTo(_, _)
RanUpTo(i, call) ==
    IF i = 0 THEN << >>
    ELSE RanUpTo(i - 1, call) \o
         (IF (i = 4 /\ ~call.groups.some) \/ (i = 5 /\ ~call.ou.some) THEN << >>
          ELSE <<CheckOrder[i]>>)

\* C3: validate_user_access runs the checks in the order domain, student,
\* admin, group, org-unit; the failure raised is one of the first failing
\* check, and no check after it is evaluated.
C3_FirstFailureInOrder ==
    Returns("validate_user_access") =>
        IF FailingChecks(vin) = {}
          THEN vout.kind = "ok" /\ vout.evaluated = RanUpTo(Len(CheckOrder), vin)
          ELSE /\ vout.kind \in KindsOfCheck(FirstFailing(vin))
               /\ vout.evaluated = RanUpTo(FirstFailing(vin), vin)

C3_Witness ==
    /\ Returns("validate_user_access")
    /\ FailingChecks(vin) = {2, 3, 4, 5}
    /\ vout.kind = "StudentNotAllowed"
    /\ vout.evaluated = <<"domain", "student">>

-----------------------------------------------------------------------------
(* Properties of the login attempt.                                         *)

\* The attempt's identity, policy and directory data, as the checks take them.
AttemptCall ==
    [email |-> cb.email, cfg |-> cb.cfg, groups |-> cb.user_groups, ou |-> cb.user_org_unit]

Validated == cb.pc \in {"role", "issue", "deliver"} \/ (cb.pc = "done" /\ cb.evaluated # << >>)

GroupPolicy(cfg) == Len(cfg.required_groups) > 0 \/ Len(cfg.allowed_groups) > 0

\* C4: when a check of validate_user_access fails in a login attempt, the
\* attempt ends denied with that check's error and a login_failed event; no
\* role is resolved and no token is signed.  A token pair is signed only in
\* an attempt where every check that ran passed.
C4_DeniedIssuesNothing ==
    /\ (Validated /\ FailingChecks(AttemptCall) # {}) =>
          /\ cb.pc = "done"
          /\ cb.denied \in KindsOfCheck(FirstFailing(AttemptCall))
          /\ ~cb.role_resolved /\ cb.user_role = ""
          /\ cb.tokens = NoPair /\ issued = {}
          /\ audit = <<"login_failed">>
    /\ (cb.role_resolved \/ cb.tokens # NoPair) =>
          /\ FailingChecks(AttemptCall) = {}
          /\ cb.denied = ""
          /\ cb.evaluated = RanUpTo(Len(CheckOrder), AttemptCall)

C4_Witness ==
    /\ cb.pc = "done"
    /\ cb.denied = "NoMatchingGroup"
    /\ FailingChecks(AttemptCall) = {4, 5}
    /\ ~cb.role_resolved
    /\ cb.tokens = NoPair
    /\ audit = <<"login_failed">>

\* C5: when the policy sets required_org_units or allowed_org_units and the
\* user's organisational unit could not be obtained, the attempt is denied and
\* no token is signed; with the earlier checks passing, the denial is
\* OrgUnitUnavailable.
C5_OrgUnitUnavailableDenied ==
    (Validated /\ WantsOrgUnit(cb.cfg) /\ ~cb.user_org_unit.some) =>
        /\ cb.denied # ""
        /\ cb.tokens = NoPair
        /\ (FailingChecks(AttemptCall) = {} => cb.denied = "OrgUnitUnavailable")

\* C6: when the policy sets required_groups or allowed_groups, a token pair is
\* signed only if the user's groups were obtained from the directory and
\* satisfy the policy.
C6_GroupPolicyNeedsGroups ==
    (cb.tokens # NoPair /\ GroupPolicy(cb.cfg)) =>
        /\ cb.groups_lookup = "ok"
        /\ cb.user_groups.some
        /\ validate_group_membership(cb.user_groups.val, cb.cfg.required_groups,
                                     cb.cfg.allowed_groups).ok

-----------------------------------------------------------------------------
(* Failure kinds and the org-unit hierarchy.                                *)

\* A path without its trailing slashes.
Stripped(path) ==
    LET k == CHOOSE n \in 0..Len(path) :
                 /\ n = 0 \/ Char(path, n) # "/"
                 /\ \A i \in (n + 1)..Len(path) : Char(path, i) = "/"
    IN  SubSeq(path, 1, k)

\* user is allowed itself or lies below it
Under(user, allowed) ==
    LET u == Stripped(user)
        a == Stripped(allowed)
    IN  \/ u = a
        \/ /\ Len(u) > Len(a)
           /\ \A i \in 1..Len(a) : Char(u, i) = Char(a, i)
           /\ Char(u, Len(a) + 1) = "/"

RequiredGroupsHeld(call) ==
    \A i \in 1..Len(call.cfg.required_groups) :
        \E j \in 1..Len(call.groups.val) :
            EqIgnoreCase(call.cfg.required_groups[i], call.groups.val[j])

RequiredOrgUnitsHeld(call) ==
    \A i \in 1..Len(call.cfg.required_org_units) :
        Under(call.ou.val, call.cfg.required_org_units[i])

\* C11: when every required group (org unit) is held and the group (org-unit)
\* check fails, validate_user_access raises NoMatchingGroup (NoMatchingOrgUnit),
\* never GroupMembershipRequired (OrgUnitRequired), whatever the names are.
C11_KindByCondition ==
    Returns("validate_user_access") =>
        /\ (vout.kind = "GroupMembershipRequired" => ~RequiredGroupsHeld(vin))
        /\ (vout.kind = "OrgUnitRequired" => vin.ou.some /\ ~RequiredOrgUnitsHeld(vin))

\* C12: check_org_unit_hierarchy(user, allowed) is true iff, trailing slashes
\* removed, user equals allowed or begins with allowed followed by "/".
C12_OrgUnitHierarchy ==
    Returns("check_org_unit_hierarchy") =>
        (vout.ok <=> Under(vin.ou.val, vin.cfg.allowed_org_units[1]))

C12_Witness ==
    /\ Returns("check_org_unit_hierarchy")
    /\ vin.ou.val = "/AB" /\ vin.cfg.allowed_org_units = <<"/A/">>
    /\ ~vout.ok

-----------------------------------------------------------------------------
(* Role resolution.                                                         *)

\* The rules of the attempt's policy that are complete and match the user.
MatchingRules ==
    {i \in 1..Len(cb.cfg.role_rules) :
        /\ cb.cfg.role_rules[i].condition_type # "" /\ cb.cfg.role_rules[i].role # ""
        /\ RuleMatches(cb.cfg.role_rules[i], cb.email, cb.user_groups)}

\* i comes before j: smaller priority number, or equal priority and earlier in the list
Before(i, j) ==
    \/ cb.cfg.role_rules[i].priority < cb.cfg.role_rules[j].priority
    \/ cb.cfg.role_rules[i].priority = cb.cfg.role_rules[j].priority /\ i <= j

\* C13: the resolved role is that of the matching rule with the smallest
\* priority number, the earlier rule winning a tie; with no matching rule the
\* role is absent and the attempt is not denied; the signed access token
\* carries the resolved role.
C13_RoleByPriority ==
    /\ cb.role_resolved =>
          /\ cb.denied = ""
          /\ IF MatchingRules = {} THEN cb.user_role = ""
             ELSE \E i \in MatchingRules :
                     /\ \A j \in MatchingRules : Before(i, j)
                     /\ cb.user_role = cb.cfg.role_rules[i].role
    /\ cb.tokens # NoPair => cb.role_resolved /\ cb.tokens.access.role = cb.user_role

C13_Witness ==
    /\ cb.tokens # NoPair
    /\ Len(cb.cfg.role_rules) = 4
    /\ cb.cfg.role_rules[1].condition_type = "default" /\ cb.cfg.role_rules[1].priority = 9
    /\ MatchingRules = {1, 2, 4}
    /\ cb.tokens.access.role = "office"

\* no rule matches, and the pair is signed all the same
C13_WitnessAbsent ==
    /\ cb.tokens # NoPair
    /\ Len(cb.cfg.role_rules) > 0
    /\ MatchingRules = {}
    /\ cb.tokens.access.role = ""

-----------------------------------------------------------------------------
(* Properties of the JWT handler.                                           *)

\* The operation had a key: one cached before it, or one the sources held.
HadKey == jwt_op.cache_before # "" \/ jwt_op.yields

\* The presented token parses and carries the signature of the handler's key.
Signed == jwt_op.token.shape = "jwt" /\ jwt_op.token.key = jwt_op.result.cache

ExpPassed == "exp" \in DOMAIN jwt_op.token.payload /\ jwt_op.token.payload["exp"] <= jwt_op.at

IssuerRight == "iss" \in DOMAIN jwt_op.token.payload /\ jwt_op.token.payload["iss"] = Issuer

\* C14 as stated: TokenExpired for every correctly signed token whose exp
\* has passed, InvalidToken for every token with a signature, structure or
\* issuer mismatch, claims only for a signed, unexpired, rightly issued token.
C14_VerifyKinds ==
    (jwt_op.op = "verify" /\ HadKey) =>
        /\ (Signed /\ ExpPassed) => jwt_op.result.kind = "TokenExpired"
        /\ (~Signed \/ ~IssuerRight) => jwt_op.result.kind = "InvalidToken"
        /\ jwt_op.result.kind = "ok" <=> (Signed /\ ~ExpPassed /\ IssuerRight)

\* C14, amended: the expiry of a correctly signed token is judged before its
\* issuer.  verify_token fails with TokenExpired for every correctly signed
\* token whose exp has passed, with InvalidToken for a signature or structure
\* mismatch and for an unexpired token with an issuer mismatch, and returns
\* the claims exactly for a signed, unexpired, rightly issued token.
C14_VerifyKindsExpiryFirst ==
    (jwt_op.op = "verify" /\ HadKey) =>
        /\ (Signed /\ ExpPassed) => jwt_op.result.kind = "TokenExpired"
        /\ (~Signed \/ (~ExpPassed /\ ~IssuerRight)) => jwt_op.result.kind = "InvalidToken"
        /\ jwt_op.result.kind = "ok" <=> (Signed /\ ~ExpPassed /\ IssuerRight)
        /\ jwt_op.result.kind = "ok" => jwt_op.result.out = jwt_op.token

C14_Witness ==
    /\ jwt_op.op = "verify" /\ HadKey
    /\ Signed /\ ~ExpPassed /\ ~IssuerRight
    /\ jwt_op.result.kind = "InvalidToken"

\* C15: refresh_token refuses a correctly signed token whose expiry lies more
\* than max_refresh_days (whole days) in the past with the token-expired kind
\* and makes no new token.
C15_TooOldRefused ==
    (/\ jwt_op.op = "refresh" /\ HadKey /\ Signed
     /\ "exp" \in DOMAIN jwt_op.token.payload
     /\ jwt_op.at - jwt_op.token.payload["exp"] >= (jwt_op.max_refresh_days + 1) * TicksPerDay)
    => (jwt_op.result.kind = "TokenExpired" /\ jwt_op.result.out = NoJwt)

\* C16: a token made by refresh_token carries the old token's email, name and
\* project_id and each of its additional claims unchanged, the issuer
\* "unified-auth-server", sub equal to the email, and an exp after the refresh.
C16_RefreshPreservesClaims ==
    (jwt_op.op = "refresh" /\ jwt_op.result.kind = "ok") =>
        LET old == jwt_op.token.payload
            new == jwt_op.result.out.payload
        IN  /\ jwt_op.result.out.shape = "jwt"
            /\ \A k \in {"email", "name", "project_id"} :
                  k \in DOMAIN new /\ new[k] = old[k]
            /\ \A k \in DOMAIN old \ StandardClaims : k \in DOMAIN new /\ new[k] = old[k]
            /\ new["iss"] = Issuer
            /\ new["sub"] = old["email"]
            /\ new["exp"] > jwt_op.at

C16_Witness ==
    /\ jwt_op.op = "refresh" /\ jwt_op.result.kind = "ok"
    /\ ExpPassed
    /\ DOMAIN jwt_op.token.payload \ StandardClaims = {"role", "jti"}
    /\ jwt_op.result.out.payload["role"] = "teacher"
    /\ jwt_op.result.out.payload["exp"] > jwt_op.token.payload["exp"]

\* C17: the cached key is unset or the key of the first successful load; an
\* operation that finds the cache set reads no source; an operation that
\* finds it unset while no source holds a key fails with
\* SigningKeyUnavailable, makes no token and leaves the cache unset.
C17_KeyCachedOnce ==
    /\ secret_key_cache = "" \/ secret_key_cache = key_log.first
    /\ key_log.loads <= 1
    /\ jwt_op.op # "none" =>
          /\ jwt_op.cache_before # "" =>
                /\ ~jwt_op.result.consulted
                /\ jwt_op.result.cache = jwt_op.cache_before
                /\ jwt_op.result.kind # "SigningKeyUnavailable"
          /\ (jwt_op.cache_before = "" /\ ~jwt_op.yields) =>
                /\ jwt_op.result.kind = "SigningKeyUnavailable"
                /\ jwt_op.result.out = NoJwt
                /\ jwt_op.result.cache = ""
          /\ (jwt_op.cache_before = "" /\ jwt_op.yields) => jwt_op.result.cache # ""

\* the store has been rotated and the handler still verifies with the first key
C17_Witness ==
    /\ secret_key_cache = "k2" /\ key_env.stored = "k3" /\ key_log.loads = 1
    /\ jwt_op.op = "verify" /\ jwt_op.cache_before = "k2"
    /\ jwt_op.result.kind = "ok"

\* no source holds a key: the operation fails and nothing is cached
C17_WitnessUnavailable ==
    /\ jwt_op.op = "create" /\ ~jwt_op.yields
    /\ jwt_op.result.kind = "SigningKeyUnavailable"
    /\ secret_key_cache = ""

-----------------------------------------------------------------------------
(* Properties of the used-token store and of the order of the refresh steps. *)

\* C18: once a record for a jti is in the store no refresh request changes
\* it; it leaves the store only in a step of cleanup_expired.
C18_RecordCreatedOnce ==
    [][\A j \in DOMAIN used_tokens :
          IF j \in DOMAIN used_tokens'
            THEN used_tokens'[j] = used_tokens[j]
            ELSE store_lock = "cleanup"]_vars

RefreshSteps ==
    <<"verify", "is_token_used", "mark_token_as_used", "get_project_config", "create_tokens">>

\* The presented token is correctly signed and was unexpired on arrival.
PassesVerification(r) == req[r].tok.sig = "good" /\ req[r].at < req[r].tok.exp

\* C20: a request that returns a new pair verified its token, then found the
\* jti not used, then marked it used, and only then made the new tokens; a
\* request whose token fails verification ends without a read or write of
\* the used-token store.
C20_StepsInOrder ==
    \A r \in Requests :
        /\ Succeeded(r) =>
              /\ req[r].steps = RefreshSteps
              /\ PassesVerification(r)
              /\ ~req[r].sawUsed
              /\ req[r].new # NoPair
        /\ req[r].new # NoPair => Succeeded(r)
        /\ (req[r].pc # "idle" /\ ~PassesVerification(r)) =>
              /\ req[r].pc = "done"
              /\ req[r].outcome \in {"InvalidToken", "TokenExpired"}
              /\ req[r].steps = <<"verify">>
        /\ (req[r].pc = "done" /\ req[r].outcome \in {"InvalidToken", "TokenExpired",
                                                       "ProjectIdMismatch"}) =>
              req[r].steps = <<"verify">>

C20_Witness ==
    \E r1, r2 \in Requests :
        /\ Succeeded(r1) /\ req[r1].steps = RefreshSteps
        /\ req[r2].pc = "done" /\ req[r2].outcome = "InvalidToken"
        /\ req[r2].steps = <<"verify">> /\ SameJti(r1, r2)


-----------------------------------------------------------------------------
(* C21 *)

\* the items of a body read as a mapping from key to value, nested bodies included
RECURSIVE AsMapping(_)
AsMapping(items) ==
    [k \in {items[i].k : i \in 1..Len(items)} |->
        LET v == (items[CHOOSE i \in 1..Len(items) : items[i].k = k]).v
        IN  IF v.t = "dict" THEN [t |-> "dict", items |-> AsMapping(v.items)]
            ELSE [t |-> v.t, items |-> <<v.s, v.n>>]]

SameBody(a, b) == AsMapping(a) = AsMapping(b)

\* the items of a body in ascending order of key
KeySorted(items) ==
    LET n == Len(items)
        perm == CHOOSE f \in [1..n -> 1..n] :
                    /\ \A i, j \in 1..n : i # j => f[i] # f[j]
                    /\ \A i \in 1..(n - 1) : StrLess(items[f[i]].k, items[f[i + 1]].k)
    IN  [i \in 1..n |-> items[perm[i]]]

\* the compact JSON text of a value with the keys of every object ascending
RECURSIVE CanonicalJson(_)
CanonicalJson(value) ==
    IF value.t = "str" THEN "\"" \o value.s \o "\""
    ELSE IF value.t = "int" THEN IntStr(value.n)
    ELSE LET sorted == KeySorted(value.items)
         IN  "{" \o Join([i \in 1..Len(sorted) |->
                            "\"" \o sorted[i].k \o "\":" \o CanonicalJson(sorted[i].v)], ",")
                 \o "}"

\* the downstream verifier's computation
ReferenceSignature(secret, timestamp, method, path, body) ==
    hmac_sha256_hexdigest(secret,
        Join(<<timestamp, ToUpper(method), path, sha256_hexdigest(CanonicalJson(JDict(body)))>>,
             "\n"))

\* C21: the signature generate_signature returns is the verifier's reference
\* HMAC over timestamp, upper-cased method, path and the digest of the
\* key-sorted compact JSON body; calls that differ only in the letter case of
\* the method or in the key order of the body get the same signature.
C21_SignatureMatchesReference ==
    (vin.fn = "generate_signature" /\ vout.done) =>
        /\ vout.signature = ReferenceSignature(vin.client_secret, vin.timestamp, vin.method,
                                               vin.path, vin.body)
        /\ \A m \in Methods, b \in Bodies :
              (ToUpper(m) = ToUpper(vin.method) /\ SameBody(b, vin.body)) =>
                  generate_signature(vin.client_secret, vin.timestamp, m, vin.path, b)
                      = vout.signature

C21_Witness ==
    /\ vin.fn = "generate_signature" /\ vout.done
    /\ vin.method = "post"
    /\ Len(vin.body) = 3 /\ vin.body[1].k = "size"
    /\ \E b \in Bodies : b # vin.body /\ SameBody(b, vin.body)

C21_WitnessEmptyBody ==
    /\ vin.fn = "generate_signature" /\ vout.done
    /\ vin.method = "get" /\ vin.body = << >>


-----------------------------------------------------------------------------
(* C22 *)

\* C22: through any interleaving of refresh requests and cleanup_expired
\* sweeps, a request that presents an unexpired refresh token whose jti was
\* in the store when it arrived, redeemed by another request that returned
\* a pair, never returns a pair itself: no jti is redeemed twice.
C22_RedeemedNeverAcceptedAgain ==
    \A r1, r2 \in Requests :
        (r1 # r2 /\ SameJti(r1, r2) /\ Succeeded(r1) /\ req[r2].preUsed) => ~Succeeded(r2)


-----------------------------------------------------------------------------
(* C23 *)

\* C23: a refresh request that ends in failure leaves the used-token store as
\* it found it: every jti in the store was put there by a request that
\* returned a new pair, or by one that has marked it and not yet answered.
C23_FailureLeavesStore ==
    \A j \in DOMAIN used_tokens :
        \E r \in Requests :
            /\ req[r].tok.jti = j
            /\ Succeeded(r) \/ req[r].pc = "issue"


-----------------------------------------------------------------------------
(* C25, C26 *)

\* C25: refresh_token makes a new token only from a correctly signed token
\* of issuer "unified-auth-server"; a correctly signed token whose iss is
\* missing or different is refused with InvalidToken and yields no token.
C25_NoLaundering ==
    (jwt_op.op = "refresh" /\ HadKey) =>
        /\ jwt_op.result.kind = "ok" => (Signed /\ IssuerRight)
        /\ (Signed /\ ~IssuerRight) =>
              (jwt_op.result.kind = "InvalidToken" /\ jwt_op.result.out = NoJwt)

\* C26: for a correctly signed, rightly issued token, refresh_token succeeds
\* exactly when the time elapsed since its expiry is at most
\* max_refresh_days days; a token that has not expired is always refreshed.
C26_GraceWindow ==
    (/\ jwt_op.op = "refresh" /\ HadKey /\ Signed /\ IssuerRight
     /\ "exp" \in DOMAIN jwt_op.token.payload) =>
        (jwt_op.result.kind = "ok"
            <=> jwt_op.at - jwt_op.token.payload["exp"]
                    <= jwt_op.max_refresh_days * TicksPerDay)


-----------------------------------------------------------------------------
(* C27 *)

\* the groups that hold key as a member, over every page of the listing
ParentsOf(key) ==
    LET listing == groups_list(directory, key)
    IN  IF listing.status = "ok" THEN Elements(ParentPagesAll(listing)) ELSE {}

\* groups together with every group that transitively contains one of them
RECURSIVE Containing(_)
Containing(groups) ==
    LET more == groups \cup UNION {ParentsOf(g) : g \in groups}
    IN  IF more = groups THEN groups ELSE Containing(more)

\* C27: a finished get_user_groups call of an initialized client whose user
\* listing succeeded has asked the directory about each group at most once
\* and returns exactly the user's direct groups together with all groups
\* that transitively contain them, a group whose lookup is answered with
\* an HTTP error contributing no parents.
C27_ExactTransitiveGroups ==
    (/\ expansion.pc = "done" /\ expansion.initialized
     /\ groups_list(directory, expansion.user_email).status = "ok"
     /\ \A k \in DOMAIN directory : directory[k].status # "exception") =>
        /\ \A i, j \in 1..Len(expansion.queried) :
              i # j => expansion.queried[i] # expansion.queried[j]
        /\ expansion.result = Containing(ParentsOf(expansion.user_email))

\* get_user_groups returns for every directory, cyclic ones included
C27_Terminates == <>(expansion.pc = "done")


\* each group is asked about at most once
C27_QueriedOnce ==
    \A i, j \in 1..Len(expansion.queried) : i # j => expansion.queried[i] # expansion.queried[j]


-----------------------------------------------------------------------------
(* C28 *)

\* C28: get_project_config(p) returns the configuration most recently stored
\* for p by create_project or update_project, and raises
\* ProjectNotFoundError when p was never created or delete_project(p) has
\* returned True since, whether or not p had been read before.
C28_CacheCoherent ==
    config_op.op = "get_project_config" =>
        IF config_op.project_id \in DOMAIN stored_last
          THEN config_op.err = "" /\ config_op.config = stored_last[config_op.project_id]
          ELSE config_op.err = "ProjectNotFoundError"


-----------------------------------------------------------------------------
(* C29 *)

InGroup(group_email) ==
    cb.user_groups.some /\ InList(ToLower(group_email), LowerAll(cb.user_groups.val))

\* C29: under the shinro-compass role_rules the resolver gives the role
\* "admin" to h.hamada@i-seifu.jp whatever the user's groups are, and gives
\* "student" only to a user who is neither that email nor a member of the
\* office or the staff group.
C29_ShinroCompassRoles ==
    (cb.cfg = ShinroCompass /\ cb.role_resolved) =>
        /\ cb.email = "h.hamada@i-seifu.jp" => cb.user_role = "admin"
        /\ cb.user_role = "student" =>
              /\ cb.email # "h.hamada@i-seifu.jp"
              /\ ~InGroup("office@i-seifu.jp")
              /\ ~InGroup("staff@i-seifu.jp")


-----------------------------------------------------------------------------
(* C24, C30 *)

Delivered == cb.pc = "done" /\ cb.status = 307 /\ cb.carries # NoPair

\* C24: a callback for a project, following the session's latest /login for
\* that project, delivers the token pair only to a URI that
\* validate_redirect_uri accepts against that project's own redirect_uris,
\* whatever /login requests the session has seen before.
C24_DeliveredToOwnUri ==
    (Delivered /\ session.project_id = cb.project_id) =>
        validate_redirect_uri(cb.location, cb.cfg.redirect_uris)

\* C30: a login_success event is recorded only in an attempt that ends by
\* redirecting the client with the token pair; an attempt that ends in an
\* error response records none and hands out no tokens.
C30_SuccessOnlyIfDelivered ==
    cb.pc = "done" =>
        /\ InList("login_success", audit) => Delivered
        /\ ~Delivered => cb.carries = NoPair

====
